---- MODULE Spec2Model ----
(***************************************************************************)
(* Model of the ai-generate-plan edge function: the structured-output      *)
(* extractor (tryParseJSON), the repair-on-failure controller (callJSON,   *)
(* callJSONStream) and the plan orchestrator (handleGeneratePlan,          *)
(* handleGeneratePlanStream).                                              *)
(*                                                                         *)
(* Texts are TLA+ strings, read character by character with SubSeq.        *)
(* JavaScript values are tagged records; every tag has its own field       *)
(* names, so that values of different types compare unequal.               *)
(***************************************************************************)
EXTENDS Integers, Sequences, FiniteSets, TLC

\* ------------------------------------------------------------------------
\* JavaScript values
\* ------------------------------------------------------------------------

JNull == [t |-> "null"]

JUndef == [t |-> "undef"]

JNaN == [t |-> "nan"]

JBool(b) == [t |-> "bool", b |-> b]

\* The finite number m / 10^s, kept normalised: s = 0 or m is no multiple of 10.
JNum(m, s) == [t |-> "num", m |-> m, s |-> s]

JInt(n) == JNum(n, 0)

JStr(x) == [t |-> "str", x |-> x]

JArr(xs) == [t |-> "arr", xs |-> xs]

\* ms is the sequence of members [k |-> key, v |-> value] in insertion order.
JObj(ms) == [t |-> "obj", ms |-> ms]

\* ToBoolean: what if (p1) and !content test.
Truthy(v) ==
    CASE v.t = "null" -> FALSE
      [] v.t = "undef" -> FALSE
      [] v.t = "nan" -> FALSE
      [] v.t = "bool" -> v.b
      [] v.t = "num" -> v.m # 0
      [] v.t = "str" -> v.x # ""
      [] OTHER -> TRUE

\* ------------------------------------------------------------------------
\* String primitives
\* ------------------------------------------------------------------------

Ch(s, i) == SubSeq(s, i, i)

\* The characters the pattern \s and String.prototype.trim treat as blank.
IsWs(c) == c \in {" ", "\t", "\n", "\r", "\f"}

IsDigit(c) == c \in {"0", "1", "2", "3", "4", "5", "6", "7", "8", "9"}

DigitVal(c) ==
    CASE c = "0" -> 0 [] c = "1" -> 1 [] c = "2" -> 2 [] c = "3" -> 3
      [] c = "4" -> 4 [] c = "5" -> 5 [] c = "6" -> 6 [] c = "7" -> 7
      [] c = "8" -> 8 [] c = "9" -> 9

\* The first index >= i of s that holds no blank (Len(s) + 1 when there is none).
SkipWs(s, i) ==
    IF \E j \in i..Len(s) : ~IsWs(Ch(s, j))
    THEN CHOOSE j \in i..Len(s) : ~IsWs(Ch(s, j)) /\ \A k \in i..(j - 1) : IsWs(Ch(s, k))
    ELSE Len(s) + 1

\* The last index <= i of s that holds no blank (0 when there is none).
SkipWsBack(s, i) ==
    IF \E j \in 1..i : ~IsWs(Ch(s, j))
    THEN CHOOSE j \in 1..i : ~IsWs(Ch(s, j)) /\ \A k \in (j + 1)..i : IsWs(Ch(s, k))
    ELSE 0

\* String.prototype.trim
Trim(s) == SubSeq(s, SkipWs(s, 1), SkipWsBack(s, Len(s)))

\* s.startsWith(p, i - 1), with i a 1-based index
StartsWithAt(s, p, i) ==
    i + Len(p) - 1 <= Len(s) /\ SubSeq(s, i, i + Len(p) - 1) = p

StartsWith(s, p) == StartsWithAt(s, p, 1)

EndsWith(s, p) == Len(p) <= Len(s) /\ SubSeq(s, Len(s) - Len(p) + 1, Len(s)) = p

\* The first 1-based index >= i where p occurs in s, 0 when there is none
\* (indexOf's -1).
IndexFrom(s, p, i) ==
    IF \E j \in i..Len(s) : StartsWithAt(s, p, j)
    THEN CHOOSE j \in i..Len(s) :
            StartsWithAt(s, p, j) /\ \A k \in i..(j - 1) : ~StartsWithAt(s, p, k)
    ELSE 0

IndexOf(s, p) == IndexFrom(s, p, 1)

\* The last 1-based index <= i where p occurs in s, 0 when there is none.
LastIndexFrom(s, p, i) ==
    IF \E j \in 1..i : StartsWithAt(s, p, j)
    THEN CHOOSE j \in 1..i :
            StartsWithAt(s, p, j) /\ \A k \in (j + 1)..i : ~StartsWithAt(s, p, k)
    ELSE 0

LastIndexOf(s, p) == LastIndexFrom(s, p, Len(s))

\* s.slice(0, n) for n >= 0
SlicePrefix(s, n) == SubSeq(s, 1, IF n < Len(s) THEN n ELSE Len(s))

\* ------------------------------------------------------------------------
\* JSON.parse
\*
\* A recursive-descent reader of the JSON grammar: objects, arrays, strings
\* with the escapes \" \\ \/ \n \r \t, numbers with an optional sign and
\* fraction, true, false, null.  Exponents and \u escapes are not read; no
\* text of the model uses them.  A result is [ok |-> TRUE, v |-> value,
\* i |-> index after the value] or [ok |-> FALSE] (a SyntaxError).
\* ------------------------------------------------------------------------

JFail == [ok |-> FALSE]

JOk(v, i) == [ok |-> TRUE, v |-> v, i |-> i]

\* JSON's own white space: no form feed.
IsJsonWs(c) == c \in {" ", "\t", "\n", "\r"}

\* The first index >= i of s that holds no JSON white space.
SkipJsonWs(s, i) ==
    IF \E j \in i..Len(s) : ~IsJsonWs(Ch(s, j))
    THEN CHOOSE j \in i..Len(s) :
            ~IsJsonWs(Ch(s, j)) /\ \A k \in i..(j - 1) : IsJsonWs(Ch(s, k))
    ELSE Len(s) + 1

RECURSIVE ParseStringBody(_, _, _)
\* Reads the characters of a string literal from index i (after the opening
\* quote) up to its closing quote.
ParseStringBody(s, i, acc) ==
    IF i > Len(s) THEN JFail
    ELSE LET c == Ch(s, i) IN
         IF c = "\"" THEN JOk(acc, i + 1)
         ELSE IF c \in {"\n", "\t", "\r", "\f"} THEN JFail
         ELSE IF c = "\\" THEN
              IF i + 1 > Len(s) THEN JFail
              ELSE LET e == Ch(s, i + 1) IN
                   CASE e = "\"" -> ParseStringBody(s, i + 2, acc \o "\"")
                     [] e = "\\" -> ParseStringBody(s, i + 2, acc \o "\\")
                     [] e = "/" -> ParseStringBody(s, i + 2, acc \o "/")
                     [] e = "n" -> ParseStringBody(s, i + 2, acc \o "\n")
                     [] e = "r" -> ParseStringBody(s, i + 2, acc \o "\r")
                     [] e = "t" -> ParseStringBody(s, i + 2, acc \o "\t")
                     [] OTHER -> JFail
         ELSE ParseStringBody(s, i + 1, acc \o c)

RECURSIVE ReadDigits(_, _, _, _)
\* Reads a run of digits from index i: [m |-> acc extended, n |-> digits read,
\* i |-> index after the run].
ReadDigits(s, i, acc, n) ==
    IF i <= Len(s) /\ IsDigit(Ch(s, i))
    THEN ReadDigits(s, i + 1, acc * 10 + DigitVal(Ch(s, i)), n + 1)
    ELSE [m |-> acc, n |-> n, i |-> i]

RECURSIVE NormNum(_, _)
\* m / 10^s without trailing zeros in the fraction.
NormNum(m, s) ==
    IF s > 0 /\ m % 10 = 0 THEN NormNum(m \div 10, s - 1) ELSE JNum(m, s)

ParseNumber(s, i) ==
    LET neg == i <= Len(s) /\ Ch(s, i) = "-"
        j == IF neg THEN i + 1 ELSE i
        ip == ReadDigits(s, j, 0, 0)
        leadingZero == ip.n > 1 /\ Ch(s, j) = "0"
        hasFrac == ip.i <= Len(s) /\ Ch(s, ip.i) = "."
        fp == IF hasFrac THEN ReadDigits(s, ip.i + 1, ip.m, 0) ELSE [m |-> ip.m, n |-> 0, i |-> ip.i]
        sign == IF neg THEN -1 ELSE 1
    IN  IF ip.n = 0 \/ leadingZero THEN JFail
        ELSE IF hasFrac /\ fp.n = 0 THEN JFail
        ELSE JOk(NormNum(sign * fp.m, fp.n), fp.i)

RECURSIVE SetMember(_, _, _, _)
\* Assigning key k of an object under construction: a repeated key keeps its
\* place and takes the later value.
SetMember(ms, k, v, i) ==
    IF i > Len(ms) THEN Append(ms, [k |-> k, v |-> v])
    ELSE IF ms[i].k = k THEN [ms EXCEPT ![i] = [k |-> k, v |-> v]]
    ELSE SetMember(ms, k, v, i + 1)

RECURSIVE ParseValue(_, _)
RECURSIVE ParseMembers(_, _, _)
RECURSIVE ParseElements(_, _, _)

\* Reads the key : value pairs of an object from index i, after its brace or a comma.
ParseMembers(s, i, ms) ==
    LET j == SkipJsonWs(s, i) IN
    IF j > Len(s) \/ Ch(s, j) # "\"" THEN JFail
    ELSE LET key == ParseStringBody(s, j + 1, "") IN
         IF ~key.ok THEN JFail
         ELSE LET c == SkipJsonWs(s, key.i) IN
              IF c > Len(s) \/ Ch(s, c) # ":" THEN JFail
              ELSE LET val == ParseValue(s, c + 1) IN
                   IF ~val.ok THEN JFail
                   ELSE LET n == SkipJsonWs(s, val.i)
                            ms2 == SetMember(ms, key.v, val.v, 1)
                        IN  IF n > Len(s) THEN JFail
                            ELSE IF Ch(s, n) = "," THEN ParseMembers(s, n + 1, ms2)
                            ELSE IF Ch(s, n) = "}" THEN JOk(JObj(ms2), n + 1)
                            ELSE JFail

\* Reads the values of an array from index i, after its bracket or a comma.
ParseElements(s, i, xs) ==
    LET val == ParseValue(s, i) IN
    IF ~val.ok THEN JFail
    ELSE LET n == SkipJsonWs(s, val.i)
             xs2 == Append(xs, val.v)
         IN  IF n > Len(s) THEN JFail
             ELSE IF Ch(s, n) = "," THEN ParseElements(s, n + 1, xs2)
             ELSE IF Ch(s, n) = "]" THEN JOk(JArr(xs2), n + 1)
             ELSE JFail

ParseValue(s, i) ==
    LET j == SkipJsonWs(s, i) IN
    IF j > Len(s) THEN JFail
    ELSE LET c == Ch(s, j) IN
         CASE c = "{" ->
                LET k == SkipJsonWs(s, j + 1) IN
                IF k <= Len(s) /\ Ch(s, k) = "}" THEN JOk(JObj(<<>>), k + 1)
                ELSE ParseMembers(s, j + 1, <<>>)
           [] c = "[" ->
                LET k == SkipJsonWs(s, j + 1) IN
                IF k <= Len(s) /\ Ch(s, k) = "]" THEN JOk(JArr(<<>>), k + 1)
                ELSE ParseElements(s, j + 1, <<>>)
           [] c = "\"" ->
                LET r == ParseStringBody(s, j + 1, "") IN
                IF r.ok THEN JOk(JStr(r.v), r.i) ELSE JFail
           [] c = "-" \/ IsDigit(c) -> ParseNumber(s, j)
           [] StartsWithAt(s, "true", j) -> JOk(JBool(TRUE), j + 4)
           [] StartsWithAt(s, "false", j) -> JOk(JBool(FALSE), j + 5)
           [] StartsWithAt(s, "null", j) -> JOk(JNull, j + 4)
           [] OTHER -> JFail

\* JSON.parse(s): the value of the whole text, or a SyntaxError.
JSONParse(s) ==
    LET r == ParseValue(s, 1) IN
    IF r.ok /\ SkipJsonWs(s, r.i) = Len(s) + 1 THEN [ok |-> TRUE, v |-> r.v]
    ELSE [ok |-> FALSE]

\* ------------------------------------------------------------------------
\* Structured-output extractor (shared.ts)
\* ------------------------------------------------------------------------

\* The code-fence marker, three grave accents.  A TLA+ string cannot hold a
\* grave accent: the texts of the model write ^ for it.
Fence == "^^^"

\* true when the seven characters at i are the json fence, in any letter case
FenceJsonAt(s, i) ==
    /\ i + 6 <= Len(s)
    /\ SubSeq(s, i, i + 2) = Fence
    /\ Ch(s, i + 3) \in {"j", "J"}
    /\ Ch(s, i + 4) \in {"s", "S"}
    /\ Ch(s, i + 5) \in {"o", "O"}
    /\ Ch(s, i + 6) \in {"n", "N"}

RECURSIVE DropJsonFences(_, _)
\* the first replace of stripFences (json fences and the blanks after them), from index i on
DropJsonFences(s, i) ==
    IF \E j \in i..Len(s) : FenceJsonAt(s, j)
    THEN LET k == CHOOSE j \in i..Len(s) :
                    FenceJsonAt(s, j) /\ \A m \in i..(j - 1) : ~FenceJsonAt(s, m)
         IN  SubSeq(s, i, k - 1) \o DropJsonFences(s, SkipWs(s, k + 7))
    ELSE SubSeq(s, i, Len(s))

RECURSIVE DropFences(_, _)
\* the second replace of stripFences (bare fences), from index i on
DropFences(s, i) ==
    LET k == IndexFrom(s, Fence, i) IN
    IF k = 0 THEN SubSeq(s, i, Len(s))
    ELSE SubSeq(s, i, k - 1) \o DropFences(s, k + 3)

stripFences(s) == Trim(DropFences(DropJsonFences(s, 1), 1))

maybeTruncatedJSON(s) ==
    LET t == Trim(s)
        startsJSON == StartsWith(t, "{") \/ StartsWith(t, "[")
        endsJSON == EndsWith(t, "}") \/ EndsWith(t, "]")
    IN  IF t = "" THEN TRUE ELSE startsJSON /\ ~endsJSON

\* The span from the first opener to the last closer, parsed, when there is
\* one and the opener precedes the closer.
ParseSpan(stripped, open, close) ==
    LET fb == IndexOf(stripped, open)
        lb == LastIndexOf(stripped, close)
    IN  IF fb # 0 /\ lb # 0 /\ lb > fb
        THEN JSONParse(SubSeq(stripped, fb, lb))
        ELSE [ok |-> FALSE]

\* Mutant of FirstParsed: the SyntaxError of the direct parse is not caught.
FirstParsed_uncaught(direct, object, array) ==
    IF direct.ok THEN direct.v ELSE [ok |-> FALSE, err |-> "SyntaxError"]

\* The value of the first attempt that parsed, JNull (none) when none did.
FirstParsed(direct, object, array) ==
    IF direct.ok THEN direct.v
    ELSE IF object.ok THEN object.v
    ELSE IF array.ok THEN array.v
    ELSE JNull

\* tryParseJSON after the fences are stripped: the truncation test, then the
\* direct parse, the object span and the array span.
ParseStripped(stripped) ==
    IF maybeTruncatedJSON(stripped) THEN JNull
    ELSE FirstParsed(JSONParse(stripped), ParseSpan(stripped, "{", "}"),
                     ParseSpan(stripped, "[", "]"))

\* tryParseJSON(raw): the parsed value, or JNull for none.  A document whose
\* value is null gives the same JNull.
tryParseJSON(raw) ==
    IF raw = "" THEN JNull ELSE ParseStripped(stripFences(raw))

\* ------------------------------------------------------------------------
\* JavaScript conversions: ??, ?., String(v), Number(v), toLowerCase
\* ------------------------------------------------------------------------

\* Infinity (neg = FALSE) and -Infinity (neg = TRUE)
JInf(neg) == [t |-> "inf", neg |-> neg]

\* v is null or undefined: the test of ?? and ?.
Nullish(v) == v.t \in {"null", "undef"}

\* a ?? b
Coalesce(a, b) == IF Nullish(a) THEN b ELSE a

RECURSIVE MemberAt(_, _, _)
\* The value of member k in the member list ms, undefined when there is none.
MemberAt(ms, k, i) ==
    IF i > Len(ms) THEN JUndef
    ELSE IF ms[i].k = k THEN ms[i].v
    ELSE MemberAt(ms, k, i + 1)

\* v?.k for the data keys the program reads (steps, step_count, step_key,
\* title, details, ...): an own member of an object, undefined on null,
\* undefined, a primitive or an array.
Get(v, k) == IF v.t = "obj" THEN MemberAt(v.ms, k, 1) ELSE JUndef

Min(a, b) == IF a < b THEN a ELSE b

Max(a, b) == IF a > b THEN a ELSE b

RECURSIVE Pow10(_)
Pow10(n) == IF n = 0 THEN 1 ELSE 10 * Pow10(n - 1)

DigitChars == "0123456789"

RECURSIVE NatToStr(_)
\* The decimal digits of a natural number: what a template literal and
\* String() print for it.
NatToStr(n) ==
    IF n < 10 THEN Ch(DigitChars, n + 1)
    ELSE NatToStr(n \div 10) \o Ch(DigitChars, (n % 10) + 1)

RECURSIVE ZeroPad(_, _)
\* s padded with zeros on the left to w characters.
ZeroPad(s, w) == IF Len(s) >= w THEN s ELSE ZeroPad("0" \o s, w)

\* Number::toString of the finite number m / 10^s.  The exponent form of
\* magnitudes below 1e-6 or from 1e21 on is not produced; no number of the
\* model is in that range.
NumToStr(v) ==
    LET a == IF v.m < 0 THEN -v.m ELSE v.m IN
    (IF v.m < 0 THEN "-" ELSE "")
      \o NatToStr(a \div Pow10(v.s))
      \o (IF v.s = 0 THEN "" ELSE "." \o ZeroPad(NatToStr(a % Pow10(v.s)), v.s))

RECURSIVE String(_)
RECURSIVE JoinElems(_, _)

\* Array.prototype.join(","), which String() applies to an array: null and
\* undefined elements print as the empty string.
JoinElems(xs, i) ==
    IF i > Len(xs) THEN ""
    ELSE (IF Nullish(xs[i]) THEN "" ELSE String(xs[i]))
           \o (IF i < Len(xs) THEN "," ELSE "")
           \o JoinElems(xs, i + 1)

\* String(v)
String(v) ==
    CASE v.t = "null" -> "null"
      [] v.t = "undef" -> "undefined"
      [] v.t = "nan" -> "NaN"
      [] v.t = "inf" -> (IF v.neg THEN "-Infinity" ELSE "Infinity")
      [] v.t = "bool" -> (IF v.b THEN "true" ELSE "false")
      [] v.t = "num" -> NumToStr(v)
      [] v.t = "str" -> v.x
      [] v.t = "arr" -> JoinElems(v.xs, 1)
      [] OTHER -> "[object Object]"

\* The value of a decimal literal t (already trimmed, not empty): an optional
\* sign, digits, an optional fraction, at least one digit; NaN for any other
\* text.  Exponents and the 0x, 0o, 0b forms are not read; no text of the
\* model uses them.
DecimalLiteral(t) ==
    LET signed == Ch(t, 1) \in {"+", "-"}
        j == IF signed THEN 2 ELSE 1
        ip == ReadDigits(t, j, 0, 0)
        hasFrac == ip.i <= Len(t) /\ Ch(t, ip.i) = "."
        fp == IF hasFrac THEN ReadDigits(t, ip.i + 1, ip.m, 0)
              ELSE [m |-> ip.m, n |-> 0, i |-> ip.i]
        sign == IF Ch(t, 1) = "-" THEN -1 ELSE 1
    IN  IF ip.n + fp.n = 0 \/ fp.i # Len(t) + 1 THEN JNaN
        ELSE NormNum(sign * fp.m, fp.n)

\* StringToNumber: the text is trimmed; the empty text is 0.
StringToNumber(x) ==
    IF Trim(x) = "" THEN JInt(0)
    ELSE IF Trim(x) \in {"Infinity", "+Infinity"} THEN JInf(FALSE)
    ELSE IF Trim(x) = "-Infinity" THEN JInf(TRUE)
    ELSE DecimalLiteral(Trim(x))

\* Number(v)
Number(v) ==
    CASE v.t = "undef" -> JNaN
      [] v.t = "null" -> JInt(0)
      [] v.t = "bool" -> (IF v.b THEN JInt(1) ELSE JInt(0))
      [] v.t = "str" -> StringToNumber(v.x)
      [] v.t = "arr" -> StringToNumber(JoinElems(v.xs, 1))
      [] v.t = "obj" -> JNaN
      [] OTHER -> v

UpperLetters == "ABCDEFGHIJKLMNOPQRSTUVWXYZ"

LowerLetters == "abcdefghijklmnopqrstuvwxyz"

\* toLowerCase of one character
LowerCh(c) ==
    IF c # "" /\ IndexOf(UpperLetters, c) # 0
    THEN Ch(LowerLetters, IndexOf(UpperLetters, c))
    ELSE c

RECURSIVE toLowerCase(_)
\* String.prototype.toLowerCase, by halves
toLowerCase(s) ==
    IF Len(s) <= 1 THEN LowerCh(s)
    ELSE toLowerCase(SubSeq(s, 1, Len(s) \div 2))
           \o toLowerCase(SubSeq(s, (Len(s) \div 2) + 1, Len(s)))

\* ------------------------------------------------------------------------
\* Normalisation of the generator's payloads
\* ------------------------------------------------------------------------

\* Number.isFinite(n)
IsFinite(n) == n.t = "num"

\* Math.trunc(n) of a finite number
Trunc(n) ==
    IF n.m >= 0 THEN n.m \div Pow10(n.s) ELSE -((-n.m) \div Pow10(n.s))

\* Mutant of clampInt: the truncated value is not clamped.
clampInt_unclamped(n, min, max) ==
    IF ~IsFinite(n) THEN min ELSE Trunc(n)

clampInt(n, min, max) ==
    IF ~IsFinite(n) THEN min ELSE Min(max, Max(min, Trunc(n)))

\* Array.isArray(raw?.steps) ? raw.steps : []
stepsRaw(raw) == IF Get(raw, "steps").t = "arr" THEN Get(raw, "steps").xs ELSE <<>>

\* String(s?.step_key ?? "").trim() and String(s?.title ?? "").trim()
entryKey(s) == Trim(String(Coalesce(Get(s, "step_key"), JStr(""))))

entryTitle(s) == Trim(String(Coalesce(Get(s, "title"), JStr(""))))

\* The entry sets byKey: if (k && t) byKey.set(k, t)
SetsKey(s, k) == entryKey(s) # "" /\ entryTitle(s) # "" /\ entryKey(s) = k

\* (byKey.get(k) ?? "").trim(): a later entry of the same key replaces an
\* earlier one.
byKeyGet(sr, k) ==
    IF \E j \in 1..Len(sr) : SetsKey(sr[j], k)
    THEN Trim(entryTitle(sr[CHOOSE j \in 1..Len(sr) :
               SetsKey(sr[j], k) /\ \A l \in (j + 1)..Len(sr) : ~SetsKey(sr[l], k)]))
    ELSE ""

stepKeyAt(i) == "step_" \o NatToStr(i)

\* Mutant of outlineEntry: the title is taken from the i-th entry of the
\* generator's list.
outlineEntry_positional(sr, i) ==
    [step_key |-> stepKeyAt(i),
     title |-> IF i <= Len(sr) /\ entryTitle(sr[i]) # "" THEN entryTitle(sr[i])
               ELSE "Step " \o NatToStr(i)]

\* steps.push({ step_key: k, title: t || "Step <i>" })
outlineEntry(sr, i) ==
    [step_key |-> stepKeyAt(i),
     title |-> IF byKeyGet(sr, stepKeyAt(i)) # "" THEN byKeyGet(sr, stepKeyAt(i))
               ELSE "Step " \o NatToStr(i)]

outlineOfCount(sr, step_count) ==
    [step_count |-> step_count, steps |-> [i \in 1..step_count |-> outlineEntry(sr, i)]]

normalizeOutline(raw, MIN, MAX) ==
    outlineOfCount(stepsRaw(raw),
        clampInt(Number(Coalesce(Get(raw, "step_count"), JInt(Len(stepsRaw(raw))))), MIN, MAX))

\* /^step\s*\d+$/i.test(t)
IsBareStep(t) ==
    /\ Len(t) >= 5
    /\ toLowerCase(SubSeq(t, 1, 4)) = "step"
    /\ SkipWs(t, 5) <= Len(t)
    /\ \A k \in SkipWs(t, 5)..Len(t) : IsDigit(Ch(t, k))

\* Mutant of postProcessTitle: the length of the title is not looked at.
postProcessTitle_anylength(title, i) ==
    IF Trim(title) = "" \/ IsBareStep(Trim(title))
    THEN "Define step " \o NatToStr(i) \o " deliverable"
    ELSE title

\* The title loop of the handlers after normalizeOutline: a title that is
\* empty, a bare "step N" or shorter than 6 characters is replaced.
postProcessTitle(title, i) ==
    IF Trim(title) = "" \/ IsBareStep(Trim(title)) \/ Len(Trim(title)) < 6
    THEN "Define step " \o NatToStr(i) \o " deliverable"
    ELSE title

postProcessTitles(outline) ==
    [outline EXCEPT !.steps =
        [i \in 1..Len(outline.steps) |->
            [outline.steps[i] EXCEPT !.title = postProcessTitle(outline.steps[i].title, i)]]]

\* ------------------------------------------------------------------------
\* cleanText, normalizePriority, normalizeStepGen
\* ------------------------------------------------------------------------

\* The four curly quotation marks are written with ASCII stand-ins in the
\* texts of the model: @ and # for the left and right double mark, $ and %
\* for the left and right single mark.
CurlyDouble == {"@", "#"}

CurlySingle == {"$", "%"}

RECURSIVE CollapseWs(_, _)
\* replace(/\s+/g, " ") of s from index i: every run of blanks becomes one space.
CollapseWs(s, i) ==
    IF \E j \in i..Len(s) : IsWs(Ch(s, j))
    THEN LET j == CHOOSE j \in i..Len(s) :
                    IsWs(Ch(s, j)) /\ \A k \in i..(j - 1) : ~IsWs(Ch(s, k))
         IN  SubSeq(s, i, j - 1) \o " " \o CollapseWs(s, SkipWs(s, j))
    ELSE SubSeq(s, i, Len(s))

RECURSIVE ReplaceChars(_, _, _, _)
\* replace(/[cs]/g, to) of s from index i
ReplaceChars(s, cs, to, i) ==
    IF \E j \in i..Len(s) : Ch(s, j) \in cs
    THEN LET j == CHOOSE j \in i..Len(s) :
                    Ch(s, j) \in cs /\ \A k \in i..(j - 1) : Ch(s, k) \notin cs
         IN  SubSeq(s, i, j - 1) \o to \o ReplaceChars(s, cs, to, j + 1)
    ELSE SubSeq(s, i, Len(s))

\* \w of a pattern
IsWordCh(c) ==
    c # "" /\ (IsDigit(c) \/ c = "_" \/ IndexOf(UpperLetters, c) # 0
                 \/ IndexOf(LowerLetters, c) # 0)

GarbageWords == {"end-user", "thelived", "ty"}

\* The word w stands at index j of s, in any case, and a word boundary follows.
WordAt(s, w, j) ==
    /\ j + Len(w) - 1 <= Len(s)
    /\ toLowerCase(SubSeq(s, j, j + Len(w) - 1)) = w
    /\ (j + Len(w) > Len(s) \/ ~IsWordCh(Ch(s, j + Len(w))))

\* /'\s*(end-user|thelived|ty)\b/i matches at index i of s.
GarbageAt(s, i) ==
    /\ Ch(s, i) = "'"
    /\ \E w \in GarbageWords : WordAt(s, w, SkipWs(s, i + 1))

\* The index after the match at i.
GarbageEnd(s, i) ==
    SkipWs(s, i + 1) + Len(CHOOSE w \in GarbageWords : WordAt(s, w, SkipWs(s, i + 1)))

RECURSIVE RemoveGarbage(_, _)
\* replace(/'\s*(end-user|thelived|ty)\b/gi, "") of s from index i
RemoveGarbage(s, i) ==
    IF \E j \in i..Len(s) : GarbageAt(s, j)
    THEN LET j == CHOOSE j \in i..Len(s) :
                    GarbageAt(s, j) /\ \A k \in i..(j - 1) : ~GarbageAt(s, k)
         IN  SubSeq(s, i, j - 1) \o RemoveGarbage(s, GarbageEnd(s, j))
    ELSE SubSeq(s, i, Len(s))

\* The first statement of cleanText: blanks collapsed, curly marks made
\* straight, trimmed.
StraightText(s) ==
    Trim(ReplaceChars(ReplaceChars(CollapseWs(String(Coalesce(s, JStr(""))), 1),
                                   CurlyDouble, "\"", 1),
                      CurlySingle, "'", 1))

\* The targeted fixes, then blanks collapsed and trimmed again.
FixedText(t) == Trim(CollapseWs(RemoveGarbage(t, 1), 1))

\* t.lastIndexOf(" ", maxLen), 0-based: -1 when there is none.
CutIndex(t, maxLen) == LastIndexFrom(t, " ", Min(maxLen + 1, Len(t))) - 1

\* Mutant of CutText: one character more is kept when the cut is at maxLen.
CutText_long(t, maxLen) ==
    IF Len(t) > maxLen
    THEN Trim(IF CutIndex(t, maxLen) > 20 THEN SlicePrefix(t, CutIndex(t, maxLen))
              ELSE SlicePrefix(t, maxLen + 1))
    ELSE t

\* The cut of a text longer than maxLen: at the last space up to maxLen when
\* it lies beyond index 20, at maxLen otherwise.
CutText(t, maxLen) ==
    IF Len(t) > maxLen
    THEN Trim(IF CutIndex(t, maxLen) > 20 THEN SlicePrefix(t, CutIndex(t, maxLen))
              ELSE SlicePrefix(t, maxLen))
    ELSE t

\* if (t && !/[.!?]$/.test(t)) t += "."
EndPunct(t) ==
    IF t # "" /\ Ch(t, Len(t)) \notin {".", "!", "?"} THEN t \o "." ELSE t

cleanText(s, maxLen) == EndPunct(CutText(FixedText(StraightText(s)), maxLen))

\* The value of normalizePriority's local s.
priorityText(v) == Trim(toLowerCase(String(Coalesce(v, JStr("")))))

normalizePriority(v) ==
    IF priorityText(v) \in {"low", "medium", "high"} THEN priorityText(v) ELSE "medium"

\* A value computed, or an exception with its message.
Value(v) == [ok |-> TRUE, v |-> v, err |-> ""]

Exception(msg) == [ok |-> FALSE, v |-> JUndef, err |-> msg]

\* The object normalizeStepGen returns.
StepGen(step_key, title, priority, details, success_criteria, estimated_minutes) ==
    [step_key |-> step_key, title |-> title, priority |-> priority, details |-> details,
     success_criteria |-> success_criteria, estimated_minutes |-> estimated_minutes]

\* Mutant of stepGenOf: empty details or success_criteria are let through.
stepGenOf_lenient(raw, expectedKey, expectedTitle, details, success_criteria) ==
    Value(StepGen(expectedKey, expectedTitle, normalizePriority(Get(raw, "priority")),
                  details, success_criteria,
                  clampInt(Number(Coalesce(Get(raw, "estimated_minutes"), JInt(30))),
                           10, 90)))

\* normalizeStepGen once details and success_criteria are cleaned.
stepGenOf(raw, expectedKey, expectedTitle, details, success_criteria) ==
    IF details = "" THEN Exception("Missing details for " \o expectedKey)
    ELSE IF success_criteria = ""
    THEN Exception("Missing success_criteria for " \o expectedKey)
    ELSE Value(StepGen(expectedKey, expectedTitle, normalizePriority(Get(raw, "priority")),
                       details, success_criteria,
                       clampInt(Number(Coalesce(Get(raw, "estimated_minutes"), JInt(30))),
                                10, 90)))

\* Mutant of normalizeStepGen: the key and the title the generator echoed
\* are kept when it echoed any.
normalizeStepGen_echo(raw, expectedKey, expectedTitle) ==
    stepGenOf(raw, String(Coalesce(Get(raw, "step_key"), JStr(expectedKey))),
              String(Coalesce(Get(raw, "title"), JStr(expectedTitle))),
              cleanText(Coalesce(Get(raw, "details"), JStr("")), 120),
              cleanText(Coalesce(Get(raw, "success_criteria"), JStr("")), 110))

normalizeStepGen(raw, expectedKey, expectedTitle) ==
    stepGenOf(raw, expectedKey, expectedTitle,
              cleanText(Coalesce(Get(raw, "details"), JStr("")), 120),
              cleanText(Coalesce(Get(raw, "success_criteria"), JStr("")), 110))

\* ------------------------------------------------------------------------
\* Bounds and program constants
\* ------------------------------------------------------------------------

\* slice(0, 500) of both raw outputs in the error of callJSON / callJSONStream
RawPrefixLen == 500

\* Copies of the filler sentence in the long upstream text; the text is
\* longer than RawPrefixLen.
LongTextCopies == 51

\* ------------------------------------------------------------------------
\* State
\* ------------------------------------------------------------------------

VARIABLES
    cpc,      \* position of the structured-output request: idle, primary,
              \* streaming, repair, returned, threw
    cfn,      \* the function serving it: callJSON or callJSONStream
    ckeys,    \* its requiredKeys parameter
    calls,    \* the upstream generation calls it issued, in order
    pending,  \* streaming: message.content of the records still to arrive
    sfail,    \* streaming: TRUE when the body ends in an abort, not in done
    full,     \* streaming: the text accumulated so far
    a1,       \* raw text of the primary call (a1 / raw1)
    r,        \* raw text of the repair call (r / raw2)
    cres,     \* the value returned: [parsed, raw]
    cerr,     \* the message of the error thrown
    tokens,   \* the deltas passed to onToken, with the position they came at
    arg,      \* pure functions: the argument drawn
    out,      \* pure functions: the value computed from arg
    fpc,      \* pure functions: idle, drawn, applied, finished
    rpc,      \* generate-plan run: the await the handler is suspended at
    rmode,    \* its mode: generate_plan or generate_plan_stream
    body,     \* its request body
    plan_id,  \* the id of the plan record it inserted (0: none yet)
    outline,  \* its outline after normalisation and title post-processing
    insertedPlaceholders,  \* its incremental-persistence flag
    generated,  \* its generated rows
    si,       \* its loop index i (0-based, as in the code)
    plans,    \* datastore: ids of the plan records
    plan_steps,  \* datastore: the step rows, in insertion order
    dbops,    \* datastore operations issued by the run, with their outcome
    events,   \* the records written to the output channel
    chan,     \* the channel: none (buffered), open, closed, cancelled
    closes,   \* how many controller.close() calls completed
    response, \* buffered mode: the HTTP response [status, body]
    outcome,  \* how the handler ended: running, returned, rejected
    npc,      \* generation client: idle, fetch, body, read, returned, threw
    nfn,      \* its function: ollamaChat or ollamaChatStream
    timer,    \* its setTimeout: none, armed, cleared, fired
    nresp,    \* what the service answers to its fetch: [kind, text]
    wire,     \* the chunks of the streamed body the service has not sent yet
    buf,      \* ollamaChatStream: the text read and not yet split in lines
    nlog,     \* ollamaChatStream: its reads, the records parsed, onToken calls
    nout,     \* what the client call came to: the text returned or the error
    apc,      \* apply_plan: per request, the await its handler is suspended at
    areq,     \* apply_plan: per request, its body and the steps it fetched
    aresp,    \* apply_plan: per request, the payload of its response
    tasks,    \* datastore: the task rows, in insertion order
    notes,    \* datastore: the note rows
    dashboard_widgets  \* datastore: the widget rows

callVars == <<cpc, cfn, ckeys, calls, pending, sfail, full, a1, r, cres, cerr, tokens>>

fnVars == <<arg, out, fpc>>

runVars == <<rpc, rmode, body, plan_id, outline, insertedPlaceholders, generated, si,
             plans, plan_steps, dbops, events, chan, closes, response, outcome>>

netVars == <<npc, nfn, timer, nresp, wire, buf, nlog, nout>>

appVars == <<apc, areq, aresp, tasks, notes, dashboard_widgets>>

vars == <<callVars, fnVars, runVars, netVars, appVars>>

\* ------------------------------------------------------------------------
\* The inference service
\* ------------------------------------------------------------------------

RECURSIVE Repeat(_, _)
Repeat(s, n) == IF n = 0 THEN "" ELSE s \o Repeat(s, n - 1)

\* A text longer than RawPrefixLen that holds no JSON.
LongText == Repeat("not json. ", LongTextCopies)

\* Texts the service can produce for a request that carries no schema.
PlainTexts ==
    { "0", "false", "null", "\"\"", "{}", "{\"a\":1}", "[1]",
      "^^^json\n{\"a\":1}\n^^^", "Sure: {\"a\":1} done", "{\"a\":[1",
      "oops", " ", LongText }

\* A response to a blocking call: the fetch is aborted by the timer, or
\* the status is not ok (text is the body), or the body is read and text is
\* its message.content ("" when the field is absent or empty).
Response(kind, text) == [kind |-> kind, text |-> text]

BlockingResponses(texts) ==
    {Response("timeout", ""), Response("status", "overloaded")}
        \cup {Response("content", t) : t \in texts \cup {""}}

\* A response to a streaming call: as above before the body; then the
\* message.content of each record the client parses before its reading
\* ends, and whether the reading ends with the body or in an abort by the
\* timer.
StreamResponse(kind, deltas, abort) == [kind |-> kind, deltas |-> deltas, abort |-> abort]

PlainStreams ==
    { <<>>, <<"0">>, <<"fal", "se">>, <<"{\"a\"", "", ":1}">>, <<"{", " ", "}">>,
      <<"{\"a\":", "[1">>, <<"oo", "ps">>, <<"Sure: ", "{\"a\":1}", "\n">>, <<LongText>> }

StreamResponses(streams) ==
    {StreamResponse("timeout", <<>>, FALSE), StreamResponse("status", <<>>, FALSE),
     StreamResponse("nobody", <<>>, FALSE)}
        \cup {StreamResponse("body", d, ab) : d \in streams, ab \in BOOLEAN}

\* ------------------------------------------------------------------------
\* Generation client, blocking mode: ollamaChat
\* ------------------------------------------------------------------------

Threw(msg) == [ok |-> FALSE, text |-> "", err |-> msg]

Returned(text) == [ok |-> TRUE, text |-> text, err |-> ""]

\* What ollamaChat makes of a response: the content, or an exception.
ollamaChat(resp) ==
    IF resp.kind = "timeout" THEN Threw("The signal has been aborted")
    ELSE IF resp.kind = "status" THEN Threw("Ollama error (500): " \o resp.text)
    ELSE IF resp.text = "" THEN Threw("Ollama returned no message.content")
    ELSE Returned(resp.text)

\* ------------------------------------------------------------------------
\* Repair-on-failure controller: callJSON and callJSONStream
\* ------------------------------------------------------------------------

RECURSIVE Join(_, _)
\* keys.join(sep)
Join(keys, sep) ==
    IF keys = <<>> THEN ""
    ELSE IF Len(keys) = 1 THEN keys[1]
    ELSE keys[1] \o sep \o Join(Tail(keys), sep)

keysLine(fn, keys) ==
    IF Len(keys) > 0
    THEN "Fix the JSON so it parses and contains these keys:"
            \o (IF fn = "callJSON" THEN "\n" ELSE " ") \o Join(keys, ", ") \o "."
    ELSE "Fix the JSON so it parses."

repairPrompt(fn, keys, raw1) ==
    "Return ONLY corrected MINIFIED JSON on one line.\nNo extra keys. No markdown.\n"
        \o (IF fn = "callJSON" THEN "\n" ELSE "")
        \o keysLine(fn, keys) \o "\n\nMALFORMED OUTPUT:\n" \o raw1

\* One upstream generation call: the model parameter it goes to, whether it
\* asks for a streamed body, its prompt.
UpstreamCall(model, stream, prompt) == [model |-> model, stream |-> stream, prompt |-> prompt]

PrimaryCall(fn, prompt) == UpstreamCall("model", fn = "callJSONStream", prompt)

\* The repair call goes through ollamaChat in both functions.
RepairCall(fn, keys, raw1) == UpstreamCall("repairModel", FALSE, repairPrompt(fn, keys, raw1))

\* `if (p1) return p1`: the test that decides whether a parsed value is returned.
Accepted(parsed) == Truthy(parsed)

\* The value handed back for a payload parsed from raw.
ReturnValue(fn, parsed, raw) ==
    IF fn = "callJSON" THEN parsed ELSE [parsed |-> parsed, raw |-> raw]

\* Mutant of FailureMessage: the raw outputs are not cut.
FailureMessage_uncut(raw1, raw2) ==
    "Model returned non-JSON after attempt+repair. A1=" \o raw1 \o " | R=" \o raw2

\* The message of the error thrown when neither output was accepted.
FailureMessage(raw1, raw2) ==
    "Model returned non-JSON after attempt+repair. A1=" \o SlicePrefix(raw1, RawPrefixLen)
        \o " | R=" \o SlicePrefix(raw2, RawPrefixLen)

\* The controller after its primary call returned text raw1, parsed to p1:
\* either it returns p1, or it issues the repair call.
PrimaryParsed(raw1, p1) ==
    /\ a1' = raw1
    /\ IF Accepted(p1)
       THEN /\ cpc' = "returned"
            /\ cres' = ReturnValue(cfn, p1, raw1)
            /\ calls' = calls
       ELSE /\ cpc' = "repair"
            /\ cres' = cres
            /\ calls' = Append(calls, RepairCall(cfn, ckeys, raw1))

PrimaryDone(raw1) == PrimaryParsed(raw1, tryParseJSON(raw1))

\* callJSON / callJSONStream is entered: the primary call is issued.
CallEnter(fn, keys, prompt) ==
    /\ cpc' = "primary"
    /\ cfn' = fn
    /\ ckeys' = keys
    /\ calls' = <<PrimaryCall(fn, prompt)>>
    /\ pending' = <<>>
    /\ sfail' = FALSE
    /\ full' = ""
    /\ a1' = ""
    /\ r' = ""
    /\ cres' = JUndef
    /\ cerr' = ""
    /\ tokens' = <<>>

\* callJSON: the primary ollamaChat settles.
PrimaryBlocking(texts) ==
    /\ cpc = "primary"
    /\ cfn = "callJSON"
    /\ \E resp \in BlockingResponses(texts) :
         IF ollamaChat(resp).ok
         THEN PrimaryDone(ollamaChat(resp).text) /\ cerr' = cerr
         ELSE /\ cpc' = "threw"
              /\ cerr' = ollamaChat(resp).err
              /\ UNCHANGED <<a1, cres, calls>>
    /\ UNCHANGED <<cfn, ckeys, pending, sfail, full, r, tokens>>

\* callJSONStream: the fetch of ollamaChatStream settles; with a body, the
\* reading loop starts.
StreamOpen(streams) ==
    /\ cpc = "primary"
    /\ cfn = "callJSONStream"
    /\ \E resp \in StreamResponses(streams) :
         IF resp.kind = "body"
         THEN /\ cpc' = "streaming"
              /\ pending' = resp.deltas
              /\ sfail' = resp.abort
              /\ cerr' = cerr
         ELSE /\ cpc' = "threw"
              /\ cerr' = (CASE resp.kind = "timeout" -> "The signal has been aborted"
                            [] resp.kind = "status" -> "Ollama error (500): "
                            [] OTHER -> "Ollama returned no body (stream unavailable).")
              /\ UNCHANGED <<pending, sfail>>
    /\ UNCHANGED <<cfn, ckeys, calls, full, a1, r, cres, tokens>>

\* ollamaChatStream: one record of the body is parsed; a non-empty delta is
\* accumulated and passed to onToken.
StreamRecord ==
    /\ cpc = "streaming"
    /\ pending # <<>>
    /\ LET delta == Head(pending) IN
       IF delta # ""
       THEN full' = full \o delta /\ tokens' = Append(tokens, delta)
       ELSE UNCHANGED <<full, tokens>>
    /\ pending' = Tail(pending)
    /\ UNCHANGED <<cpc, cfn, ckeys, calls, sfail, a1, r, cres, cerr>>

\* ollamaChatStream ends: the body is over and the text is returned to
\* callJSONStream, or the timer aborted the read.
StreamEnd ==
    /\ cpc = "streaming"
    /\ pending = <<>>
    /\ IF sfail
       THEN /\ cpc' = "threw"
            /\ cerr' = "The signal has been aborted"
            /\ UNCHANGED <<a1, cres, calls>>
       ELSE PrimaryDone(full) /\ cerr' = cerr
    /\ UNCHANGED <<cfn, ckeys, pending, sfail, full, r, tokens>>

\* Mutant of RepairParsed: an output that is not accepted is sent to the
\* repair model again.
RepairParsed_again(raw2, pr) ==
    /\ r' = raw2
    /\ cerr' = cerr
    /\ IF Accepted(pr)
       THEN /\ cpc' = "returned"
            /\ cres' = ReturnValue(cfn, pr, raw2)
            /\ calls' = calls
       ELSE /\ cpc' = "repair"
            /\ cres' = cres
            /\ calls' = Append(calls, RepairCall(cfn, ckeys, raw2))

\* The controller after its repair call returned text raw2, parsed to pr:
\* it returns pr or fails with both raw outputs in the message.
RepairParsed(raw2, pr) ==
    /\ r' = raw2
    /\ IF Accepted(pr)
       THEN /\ cpc' = "returned"
            /\ cres' = ReturnValue(cfn, pr, raw2)
            /\ cerr' = cerr
       ELSE /\ cpc' = "threw"
            /\ cerr' = FailureMessage(a1, raw2)
            /\ cres' = cres
    /\ calls' = calls

\* The repair ollamaChat settles: its value is returned or the request fails.
RepairSettles(texts) ==
    /\ cpc = "repair"
    /\ \E resp \in BlockingResponses(texts) :
         IF ollamaChat(resp).ok
         THEN RepairParsed(resp.text, tryParseJSON(resp.text))
         ELSE /\ cpc' = "threw"
              /\ cerr' = ollamaChat(resp).err
              /\ UNCHANGED <<r, cres, calls>>
    /\ UNCHANGED <<cfn, ckeys, pending, sfail, full, a1, tokens>>

\* ------------------------------------------------------------------------
\* SpecCall: one structured-output request on its own
\* ------------------------------------------------------------------------

KeyLists == {<<>>, <<"details", "success_criteria">>}

CallInit ==
    /\ cpc = "idle"
    /\ cfn = "callJSON"
    /\ ckeys = <<>>
    /\ calls = <<>>
    /\ pending = <<>>
    /\ sfail = FALSE
    /\ full = ""
    /\ a1 = ""
    /\ r = ""
    /\ cres = JUndef
    /\ cerr = ""
    /\ tokens = <<>>

\* No pure function is under evaluation.
FnIdle ==
    /\ arg = JUndef
    /\ out = JUndef
    /\ fpc = "idle"

\* No generate-plan run was started.
RunIdle ==
    /\ rpc = "idle"
    /\ rmode = "generate_plan"
    /\ body = JUndef
    /\ plan_id = 0
    /\ outline = JUndef
    /\ insertedPlaceholders = FALSE
    /\ generated = <<>>
    /\ si = 0
    /\ plans = {}
    /\ plan_steps = <<>>
    /\ dbops = <<>>
    /\ events = <<>>
    /\ chan = "none"
    /\ closes = 0
    /\ response = JUndef
    /\ outcome = "running"

\* No generation call is observed at the level of its transport.
NetIdle ==
    /\ npc = "idle"
    /\ nfn = "ollamaChat"
    /\ timer = "none"
    /\ nresp = [kind |-> "content", text |-> ""]
    /\ wire = <<>>
    /\ buf = ""
    /\ nlog = <<>>
    /\ nout = [ok |-> TRUE, text |-> "", err |-> ""]

\* The apply_plan requests: two callers.
Procs == {1, 2}

\* No apply_plan request was made.
AppIdle ==
    /\ apc = [p \in Procs |-> "idle"]
    /\ areq = [p \in Procs |-> JUndef]
    /\ aresp = [p \in Procs |-> JUndef]
    /\ tasks = <<>>
    /\ notes = <<>>
    /\ dashboard_widgets = <<>>

\* The state after construction: nothing was requested yet.
Idle == CallInit /\ FnIdle /\ RunIdle /\ NetIdle /\ AppIdle

Request ==
    /\ cpc = "idle"
    /\ \E fn \in {"callJSON", "callJSONStream"}, keys \in KeyLists :
         CallEnter(fn, keys, "PROMPT")
    /\ UNCHANGED <<fnVars, netVars, appVars, runVars>>

PlainPrimaryBlocking == PrimaryBlocking(PlainTexts) /\ UNCHANGED <<fnVars, netVars, appVars, runVars>>

PlainStreamOpen == StreamOpen(PlainStreams) /\ UNCHANGED <<fnVars, netVars, appVars, runVars>>

PlainStreamRecord == StreamRecord /\ UNCHANGED <<fnVars, netVars, appVars, runVars>>

PlainStreamEnd == StreamEnd /\ UNCHANGED <<fnVars, netVars, appVars, runVars>>

PlainRepairSettles == RepairSettles(PlainTexts) /\ UNCHANGED <<fnVars, netVars, appVars, runVars>>

CallNext ==
    \/ Request
    \/ PlainPrimaryBlocking
    \/ PlainStreamOpen
    \/ PlainStreamRecord
    \/ PlainStreamEnd
    \/ PlainRepairSettles

SpecCall == Idle /\ [][CallNext]_vars

\* ------------------------------------------------------------------------
\* Claims about the repair-on-failure controller (SpecCall)
\* ------------------------------------------------------------------------

\* The request is over: a value was returned or an error thrown.
CallOver == cpc \in {"returned", "threw"}

\* The payload a finished request returned.
ParsedOf(fn, res) == IF fn = "callJSON" THEN res ELSE res.parsed

\* The extractor gave a value for raw (not none).
Extracts(raw) == tryParseJSON(raw) # JNull

\* The first n characters of s.
Take(s, n) == SubSeq(s, 1, IF Len(s) < n THEN Len(s) ELSE n)

\* msg holds the first RawPrefixLen characters of raw and not one more.
HoldsCutPrefix(msg, raw) ==
    /\ IndexOf(msg, Take(raw, RawPrefixLen)) # 0
    /\ Len(raw) > RawPrefixLen => IndexOf(msg, Take(raw, RawPrefixLen + 1)) = 0

\* An error of the generation client: timeout, bad status, no content or body.
IsClientError(msg) ==
    \/ StartsWith(msg, "The signal has been aborted")
    \/ StartsWith(msg, "Ollama error")
    \/ StartsWith(msg, "Ollama returned no")

\* C1: a structured-output request issues at most two upstream generation
\* calls: the primary call, then at most one repair call; never a third.
C1_AtMostTwoCalls ==
    /\ Len(calls) <= 2
    /\ Len(calls) >= 1 => calls[1].model = "model"
    /\ Len(calls) = 2 => calls[2].model = "repairModel"

\* C1 witness: a request that ended after its repair call was answered.
C1_Witness == CallOver /\ Len(calls) = 2 /\ r # ""

\* The primary output read as a JSON document, fences stripped.
PrimaryDocument == JSONParse(stripFences(a1))

\* C2: when the primary output is a valid JSON document (fences stripped),
\* whatever its value, the request returns the value parsed from it after
\* exactly one upstream call; no repair call is issued.
C2_ValidPrimaryIsReturned ==
    (cpc \in {"repair", "returned", "threw"} /\ a1 # "" /\ PrimaryDocument.ok)
        => /\ cpc = "returned"
           /\ Len(calls) = 1
           /\ ParsedOf(cfn, cres) = PrimaryDocument.v

\* C3: when the primary output fails extraction and the repair output
\* extracts, the request returns the payload parsed from the repair output
\* after exactly two calls: the primary call, then one blocking call to the
\* repair model whose prompt holds the primary output.
C3_RepairedPayloadIsReturned ==
    (CallOver /\ r # "" /\ ~Extracts(a1) /\ Extracts(r))
        => /\ cpc = "returned"
           /\ ParsedOf(cfn, cres) = tryParseJSON(r)
           /\ Len(calls) = 2
           /\ calls[1].model = "model"
           /\ calls[2] = UpstreamCall("repairModel", FALSE, calls[2].prompt)
           /\ EndsWith(calls[2].prompt, "MALFORMED OUTPUT:\n" \o a1)

\* C4: when both outputs fail extraction the request fails, returns no
\* payload, and the error message holds a prefix of each raw output cut to
\* at most RawPrefixLen characters.
C4_BothFailMessage ==
    (CallOver /\ r # "" /\ ~Extracts(a1) /\ ~Extracts(r))
        => /\ cpc = "threw"
           /\ cres = JUndef
           /\ HoldsCutPrefix(cerr, a1)
           /\ HoldsCutPrefix(cerr, r)

\* C4 witness: a failed request whose raw outputs are both longer than the cut.
C4_Witness ==
    /\ cpc = "threw"
    /\ Len(a1) > RawPrefixLen
    /\ Len(r) > RawPrefixLen
    /\ ~Extracts(a1)
    /\ ~Extracts(r)

\* C5: a timeout or transport error of the primary call leads to the repair
\* call; such an error reaches the caller only from the repair call.
C5_ClientErrorOnlyFromRepair ==
    (cpc = "threw" /\ IsClientError(cerr)) => Len(calls) = 2

\* ------------------------------------------------------------------------
\* SpecOutline: normalizeOutline and the title loop on the payloads the
\* generator can return for the outline call
\* ------------------------------------------------------------------------

MIN_STEPS == 3

MAX_STEPS == 10

\* An entry of the generator's steps list with key k and title t.
Entry(k, t) == JObj(<<[k |-> "step_key", v |-> k], [k |-> "title", v |-> t]>>)

Titled(k, t) == Entry(JStr(k), JStr(t))

\* A payload member that is absent.
Absent == JUndef

\* step_count as the generator can state it: absent, in range, out of
\* range, fractional, numeric and non-numeric text, other types.
StepCountFields ==
    { Absent, JInt(0), JInt(2), JInt(3), JInt(5), JInt(10), JInt(11), JInt(-4),
      JNum(47, 1), JStr("5"), JStr(" 7 "), JStr("many"), JStr(""), JStr("Infinity"),
      JNull, JBool(TRUE), JArr(<<>>), JObj(<<>>) }

ElevenSteps ==
    JArr(<<Titled("step_1", "Meet the team"), Titled("step_2", "Set up laptop"),
           Titled("step_3", "Read the handbook"), Titled("step_4", "Shadow a colleague"),
           Titled("step_5", "Ship a first change"), Titled("step_6", "Review the roadmap"),
           Titled("step_7", "Present your plan"), Titled("step_8", "Collect feedback"),
           Titled("step_9", "Plan next quarter"), Titled("step_10", "Run a retrospective"),
           Titled("step_11", "Mentor a newcomer")>>)

\* steps as the generator can state it: absent, no list, empty, in order,
\* reordered, with gaps, with duplicates, with foreign keys, with entries
\* that are no objects, with titles that are no usable text, too long.
StepsFields ==
    { Absent, JStr("none"), JArr(<<>>),
      JArr(<<Titled("step_1", "Meet the team"), Titled("step_2", "Setup"),
             Titled("step_3", "Step 3")>>),
      JArr(<<Titled("step_3", "Read the handbook"), Titled("step_1", "Meet the team"),
             Titled("step_2", "Set up laptop")>>),
      JArr(<<Titled("step_1", "Meet the team"), Titled("step_3", "Read the handbook"),
             Titled("step_5", "Ship a first change")>>),
      JArr(<<Titled("step_1", "First title"), Titled("step_1", "Second title"),
             Titled("step_2", "Set up laptop")>>),
      JArr(<<Titled("intro", "Introduction"), Titled("step_one", "Meet the team"),
             Titled("Step_1", "Capital key"), Titled(" step_2 ", "Padded key"),
             Entry(JInt(3), JStr("Numeric key"))>>),
      JArr(<<JNull, JInt(5), JStr("step_1"), JArr(<<Titled("step_1", "Nested entry")>>)>>),
      JArr(<<Entry(JStr("step_1"), JInt(7)), Titled("step_2", ""),
             Entry(JStr("step_3"), JNull), Titled("step_4", "   "),
             JObj(<<[k |-> "step_key", v |-> JStr("step_5")]>>)>>),
      ElevenSteps }

\* The object with the members given, absent ones left out.
Payload(step_count, steps) ==
    JObj((IF step_count = Absent THEN <<>> ELSE <<[k |-> "step_count", v |-> step_count]>>)
           \o (IF steps = Absent THEN <<>> ELSE <<[k |-> "steps", v |-> steps]>>))

\* What callJSON can hand to normalizeOutline: any accepted JSON value.
OutlinePayloads ==
    {Payload(c, s) : c \in StepCountFields, s \in StepsFields}
        \cup {JInt(5), JBool(TRUE), JStr("three steps"), JArr(<<JInt(1)>>), ElevenSteps}

OutlineInit ==
    /\ CallInit
    /\ RunIdle
    /\ NetIdle
    /\ AppIdle
    /\ arg \in OutlinePayloads
    /\ out = JUndef
    /\ fpc = "drawn"

NormalizeOutlineStep ==
    /\ fpc = "drawn"
    /\ out' = normalizeOutline(arg, MIN_STEPS, MAX_STEPS)
    /\ fpc' = "applied"
    /\ UNCHANGED <<arg, callVars, netVars, appVars, runVars>>

PostProcessTitlesStep ==
    /\ fpc = "applied"
    /\ out' = postProcessTitles(out)
    /\ fpc' = "finished"
    /\ UNCHANGED <<arg, callVars, netVars, appVars, runVars>>

OutlineNext ==
    \/ NormalizeOutlineStep
    \/ PostProcessTitlesStep

SpecOutline == OutlineInit /\ [][OutlineNext]_vars

\* ------------------------------------------------------------------------
\* Claims about the outline (SpecOutline)
\* ------------------------------------------------------------------------

\* The keys step_1 .. step_10, written out.
StepKeyTable ==
    <<"step_1", "step_2", "step_3", "step_4", "step_5",
      "step_6", "step_7", "step_8", "step_9", "step_10">>

\* C9: for every payload the generator can return for the outline call, the
\* normalized outline has step_count within MIN_STEPS..MAX_STEPS, exactly
\* step_count entries, and its i-th entry has the key step_<i>: no gap, no
\* duplicate, no key taken from the generator.
C9_OutlineKeysPositional ==
    fpc \in {"applied", "finished"} =>
        /\ out.step_count \in MIN_STEPS..MAX_STEPS
        /\ Len(out.steps) = out.step_count
        /\ \A i \in 1..Len(out.steps) : out.steps[i].step_key = StepKeyTable[i]

\* An out-of-range step_count with a gapped list of steps was normalised.
C9_Witness ==
    /\ fpc = "applied"
    /\ Get(arg, "step_count") = JInt(11)
    /\ Len(stepsRaw(arg)) = 3
    /\ entryKey(stepsRaw(arg)[3]) = "step_5"
    /\ out.step_count = MAX_STEPS
    /\ Len(out.steps) = MAX_STEPS

\* The non-empty titles the generator attached to the key k (keys and
\* titles taken as text, without the white space around them).
TitlesAt(sr, k) ==
    {entryTitle(sr[j]) : j \in {l \in 1..Len(sr) : entryKey(sr[l]) = k /\ entryTitle(sr[l]) # ""}}

Body(company_name, company_title, short_description) ==
    [company_name |-> company_name, company_title |-> company_title,
     short_description |-> short_description]

\* v?.trim() as a text: "" stands for undefined, which is as falsy.
TrimOpt(v) == IF v.t = "str" THEN Trim(v.x) ELSE ""

\* !company_name?.trim() || !company_title?.trim() || !short_description?.trim()
MissingField(b) ==
    TrimOpt(b.company_name) = "" \/ TrimOpt(b.company_title) = ""
        \/ TrimOpt(b.short_description) = ""

outlinePrompt(input, MIN, MAX) ==
    "Create an onboarding plan outline.\n\nReturn MINIFIED JSON exactly in this shape:\n"
      \o "{\"step_count\":N,\"steps\":[{\"step_key\":\"step_1\",\"title\":\"...\"}, ...]}\n\n"
      \o "Rules:\n- Choose N based on complexity. N must be an integer between "
      \o NatToStr(MIN) \o " and " \o NatToStr(MAX) \o ".\n"
      \o "- step_count MUST equal steps.length.\n"
      \o "- step_key must be exactly \"step_1\"...\"step_N\" (no gaps).\n"
      \o "- title: <= 40 characters, action-oriented, non-redundant.\n"
      \o "- Output only JSON. One line. No extra keys.\n\n"
      \o "Company: " \o TrimOpt(input.company_name) \o "\n"
      \o "Title: " \o TrimOpt(input.company_title) \o "\n"
      \o "Description: " \o TrimOpt(input.short_description) \o "\n"

stepPrompt(input, step_key, title, step_count) ==
    "Return ONLY valid MINIFIED JSON on one line.\n\n"
      \o "You must fill VALUES for details/success_criteria/priority/estimated_minutes only.\n\n"
      \o "DO NOT change step_key or title. Copy them EXACTLY.\n\n"
      \o "JSON TEMPLATE (copy exactly, only replace the ... and NN values):\n"
      \o "{\"step_key\":\"" \o step_key \o "\",\"title\":\"" \o title
      \o "\",\"priority\":\"medium\",\"details\":\"...\",\"success_criteria\":\"...\",\"estimated_minutes\":NN}\n\n"
      \o "Rules:\n- step_key MUST be exactly \"" \o step_key \o "\" (no other text).\n"
      \o "- title MUST be exactly \"" \o title \o "\" (no other text).\n"
      \o "- details: one sentence, <= 90 chars.\n- success_criteria: one sentence, <= 80 chars.\n"
      \o "- priority: low|medium|high.\n- estimated_minutes: integer 10..90.\n"
      \o "- No extra keys. No markdown.\n\nContext:\n"
      \o "Company: " \o TrimOpt(input.company_name) \o "\n"
      \o "Role: " \o TrimOpt(input.company_title) \o "\n"
      \o "Description: " \o TrimOpt(input.short_description) \o "\n\n"
      \o "Step " \o step_key \o " of " \o NatToStr(step_count) \o "."

\* A row of plan_steps.
StepRow(pid, step_key, order_index, title, details, criteria, priority, minutes) ==
    [plan_id |-> pid, step_key |-> step_key, order_index |-> order_index, title |-> title,
     details |-> details, success_criteria |-> criteria, priority |-> priority,
     estimated_minutes |-> minutes, status |-> "not_started"]

\* The placeholder rows of an outline.
placeholders(o, pid) ==
    [idx \in 1..Len(o.steps) |->
        StepRow(pid, o.steps[idx].step_key, idx, o.steps[idx].title, "", "", "medium", 30)]

\* The row built from a step's normalised content; i is the loop index.
GeneratedRow(pid, stepGen, i) ==
    StepRow(pid, stepGen.step_key, i + 1, stepGen.title, stepGen.details,
            stepGen.success_criteria, stepGen.priority, stepGen.estimated_minutes)

\* The column values the per-step update writes.
UpdateSet(row) ==
    [details |-> row.details, success_criteria |-> row.success_criteria,
     priority |-> row.priority, estimated_minutes |-> row.estimated_minutes]

\* Datastore: a row with the columns of set overwritten.
ApplySet(row, set) == [f \in DOMAIN row |-> IF f \in DOMAIN set THEN set[f] ELSE row[f]]

\* Mutant of UpdatedRows: the update is filtered by step_key only.
UpdatedRows_anyplan(rows, pid, key, set) ==
    [j \in 1..Len(rows) |->
        IF rows[j].step_key = key THEN ApplySet(rows[j], set) ELSE rows[j]]

\* Datastore: update(set).eq("plan_id", pid).eq("step_key", key)
UpdatedRows(rows, pid, key, set) ==
    [j \in 1..Len(rows) |->
        IF rows[j].plan_id = pid /\ rows[j].step_key = key THEN ApplySet(rows[j], set)
        ELSE rows[j]]

OfOtherPlan(row, pid) == row.plan_id # pid

RECURSIVE RowsWithout(_, _)
\* Datastore: delete().eq("plan_id", pid)
RowsWithout(rows, pid) ==
    IF rows = <<>> THEN <<>>
    ELSE (IF OfOtherPlan(Head(rows), pid) THEN <<Head(rows)>> ELSE <<>>)
           \o RowsWithout(Tail(rows), pid)

\* An operation on the datastore as the log keeps it.
DbOp(table, op, pid, what, result) ==
    [table |-> table, op |-> op, plan_id |-> pid, what |-> what, result |-> result]

\* A datastore operation succeeds, or fails with an error value.
DbResults == {"ok", "error"}

\* The id the datastore gives to a new plan record.
NewPlanId == Cardinality(plans) + 1

\* sseEvent(event, data): one record of the output channel.
Record(event, data) == [event |-> event, data |-> data]

StatusRecord(phase, data) == Record("status", [phase |-> phase, data |-> data])

ErrorRecord(error, detail) == Record("error", [error |-> error, detail |-> detail])

OutlineToken(delta) == Record("token", [scope |-> "outline", delta |-> delta])

StepToken(step_key, delta) ==
    Record("token", [scope |-> "step", step_key |-> step_key, delta |-> delta])

\* The payload of a terminal success: the done record or the 200 response.
Success(mode, pid, step_count, steps) ==
    [mode |-> mode, plan_id |-> pid, step_count |-> step_count, steps |-> steps]

HttpResponse(status, payload) == [status |-> status, body |-> payload]

Streamed == rmode \in {"generate_plan_stream", "regenerate_step_stream"}

\* The function the handler calls for structured output, and the
\* requiredKeys it passes for a step.
CallFn == IF Streamed THEN "callJSONStream" ELSE "callJSON"

StepKeys ==
    IF Streamed THEN <<"details", "success_criteria", "priority", "estimated_minutes">>
    ELSE <<>>

\* ------------------------------------------------------------------------
\* Plan orchestrator: the handler from one await to the next
\* ------------------------------------------------------------------------

ctlVars == <<rpc, si, chan, closes, response, outcome, events>>

dataVars == <<rmode, body, plan_id, outline, insertedPlaceholders, generated,
              plans, plan_steps, dbops>>

\* send(...) of the records evs would throw: controller.enqueue on a
\* channel the caller cancelled.
SendThrows(evs) == Streamed /\ evs # <<>> /\ chan # "open"

\* The records on the channel once evs are sent (buffered mode sends none).
Written(evs) == IF Streamed THEN events \o evs ELSE events

\* send threw in the try block, and send("error", ...) threw again in the
\* catch block: the handler ends with nothing written and close() not reached.
Rejected ==
    /\ rpc' = "over"
    /\ outcome' = "rejected"
    /\ UNCHANGED <<si, chan, closes, response, events, callVars>>

\* The handler sends evs and suspends at the datastore await pc.
AwaitAt(pc, evs) ==
    IF SendThrows(evs) THEN Rejected
    ELSE /\ rpc' = pc
         /\ events' = Written(evs)
         /\ UNCHANGED <<si, chan, closes, response, outcome, callVars>>

\* The handler sends evs and suspends in callJSON / callJSONStream, with its
\* loop index at i.
CallAt(pc, i, evs, keys, prompt) ==
    IF SendThrows(evs) THEN Rejected
    ELSE /\ rpc' = pc
         /\ si' = i
         /\ events' = Written(evs)
         /\ CallEnter(CallFn, keys, prompt)
         /\ UNCHANGED <<chan, closes, response, outcome>>

\* The handler ends: streamed, it sends evs and calls controller.close();
\* buffered, it returns resp.
End(evs, resp) ==
    IF Streamed
    THEN IF chan = "open"
         THEN /\ events' = events \o evs
              /\ chan' = "closed"
              /\ closes' = closes + 1
              /\ rpc' = "over"
              /\ outcome' = "returned"
              /\ UNCHANGED <<si, response, callVars>>
         ELSE Rejected
    ELSE /\ response' = resp
         /\ rpc' = "over"
         /\ outcome' = "returned"
         /\ UNCHANGED <<si, chan, closes, events, callVars>>

\* An exception reaches the catch block of the streamed handler, or leaves
\* the buffered handler and reaches the catch block of the router.
Caught(detail) ==
    End(<<ErrorRecord("Internal server error", detail)>>,
        HttpResponse(500, [error |-> "Internal server error", detail |-> detail]))

\* The handler answers a request it cannot serve.
Refused(status, error) ==
    End(<<ErrorRecord(error, "")>>, HttpResponse(status, [error |-> error]))

\* The handler sends evs and reports terminal success with the rows generated.
Succeeded(evs, rows) ==
    End(evs \o <<Record("done", Success(rmode, plan_id, outline.step_count, rows))>>,
        HttpResponse(200, Success(rmode, plan_id, outline.step_count, rows)))

\* The structured-output call for step i + 1 is issued, after step_start.
StepCall(i, evs) ==
    CallAt("step_call", i,
           evs \o <<StatusRecord("step_start",
                       [step_key |-> outline.steps[i + 1].step_key,
                        title |-> outline.steps[i + 1].title,
                        index |-> i + 1, total |-> outline.step_count])>>,
           StepKeys,
           stepPrompt(body, outline.steps[i + 1].step_key, outline.steps[i + 1].title,
                      outline.step_count))

\* Finalize: with incremental persistence disabled the rows are deleted and
\* inserted in bulk; otherwise the run is done.
Finalize(evs, enabled, rows) ==
    IF ~enabled THEN AwaitAt("fin_delete", evs \o <<StatusRecord("db_insert_steps_bulk", "")>>)
    ELSE Succeeded(evs, rows)

\* Mutant of AfterStep: step_done is sent only for the last step.
AfterStep_silent(enabled, rows) ==
    IF si + 1 < Len(outline.steps)
    THEN StepCall(si + 1, <<>>)
    ELSE Finalize(<<StatusRecord("step_done", outline.steps[si + 1].step_key)>>, enabled, rows)

\* The end of a loop iteration: step_done, then the next step or finalize.
\* enabled is insertedPlaceholders and rows is generated at that point.
AfterStep(enabled, rows) ==
    IF si + 1 < Len(outline.steps)
    THEN StepCall(si + 1, <<StatusRecord("step_done", outline.steps[si + 1].step_key)>>)
    ELSE Finalize(<<StatusRecord("step_done", outline.steps[si + 1].step_key)>>, enabled, rows)

\* What the handler takes from the value callJSON / callJSONStream returned:
\* the value itself, or its member parsed.
CallPayload == IF cfn = "callJSON" THEN cres ELSE cres.parsed

\* Texts the service can produce for the outline prompt: a three-step
\* outline; an outline without step_count whose three entries are out of
\* order, with a foreign key, a short title and a bare "Step 1"; prose.
OutlineThree ==
    "{\"step_count\":3,\"steps\":[{\"step_key\":\"step_1\",\"title\":\"Meet the team\"},"
      \o "{\"step_key\":\"step_2\",\"title\":\"Set up laptop\"},"
      \o "{\"step_key\":\"step_3\",\"title\":\"Read the handbook\"}]}"

OutlineLoose ==
    "{\"steps\":[{\"step_key\":\"step_2\",\"title\":\"Setup\"},"
      \o "{\"step_key\":\"intro\",\"title\":\"Introduction\"},"
      \o "{\"step_key\":\"step_1\",\"title\":\"Step 1\"}]}"

OutlineTexts == {OutlineThree, OutlineLoose, "oops"}

OutlineStreams ==
    { <<"{\"step_count\":3,", " ", SubSeq(OutlineThree, 17, Len(OutlineThree))>>,
      <<OutlineLoose>>, <<"oo", "ps">> }

\* Texts the service can produce for a step prompt: the template filled in
\* (echoing the key and title of step_1); a reply that echoes a foreign key
\* and title, with a capitalised priority and minutes that are no number; a
\* reply without details; prose.
StepPlainHead == "{\"step_key\":\"step_1\",\"title\":\"Meet the team\",\"priority\":\"medium\","

StepPlainTail ==
    "\"details\":\"Meet everyone on the team\",\"success_criteria\":\"You know who does what\","
      \o "\"estimated_minutes\":30}"

StepPlain == StepPlainHead \o StepPlainTail

StepEcho ==
    "{\"step_key\":\"step_9\",\"title\":\"Hacked\",\"priority\":\"HIGH\","
      \o "\"details\":\"Read  the docs\",\"success_criteria\":\"Quiz passed!\","
      \o "\"estimated_minutes\":\"abc\"}"

StepNoDetails == "{\"step_key\":\"step_1\",\"success_criteria\":\"Done\"}"

StepTexts == {StepPlain, StepEcho, StepNoDetails, "oops"}

\* Streamed bodies for a step prompt; the other texts reach a streamed run
\* through the repair call.
StepStreams == { <<StepPlainHead, " ", StepPlainTail>>, <<"oops">> }

\* Request bodies: complete, with a blank company name, without description.
Bodies ==
    { Body(JStr(" Acme "), JStr("Engineer"), JStr("Builds rockets")),
      Body(JStr("   "), JStr("Engineer"), JStr("Builds rockets")),
      Body(JStr("Acme"), JStr("Engineer"), JUndef) }

Modes == {"generate_plan", "generate_plan_stream"}

RunInit == Idle

\* The request arrives: validation, then the insert of the plan record.
\* The first records are written while the stream is being constructed.
GeneratePlanStart ==
    /\ rpc = "idle"
    /\ \E mode \in Modes, b \in Bodies :
         /\ rmode' = mode
         /\ body' = b
         /\ IF MissingField(b)
            THEN /\ rpc' = "over"
                 /\ outcome' = "returned"
                 /\ IF mode = "generate_plan_stream"
                    THEN /\ events' = <<StatusRecord("start", ""),
                                        ErrorRecord("company_name, company_title, and short_description are required", "")>>
                         /\ chan' = "closed"
                         /\ closes' = closes + 1
                         /\ response' = response
                    ELSE /\ response' = HttpResponse(400,
                                [error |-> "company_name, company_title, and short_description are required"])
                         /\ UNCHANGED <<events, chan, closes>>
            ELSE /\ rpc' = "plan_insert"
                 /\ IF mode = "generate_plan_stream"
                    THEN /\ events' = <<StatusRecord("start", ""),
                                        StatusRecord("db_create_plan", "")>>
                         /\ chan' = "open"
                    ELSE UNCHANGED <<events, chan>>
                 /\ UNCHANGED <<closes, response, outcome>>
    /\ UNCHANGED <<si, plan_id, outline, insertedPlaceholders, generated, plans,
                   plan_steps, dbops, callVars, fnVars, netVars, appVars>>

\* Mutant of PlanInsertDone: the outcome of the insert is not looked at.
PlanInsertDone_unchecked ==
    /\ rpc = "plan_insert"
    /\ \E res \in DbResults :
         /\ dbops' = Append(dbops, DbOp("plans", "insert", NewPlanId, body, res))
         /\ plans' = IF res = "ok" THEN plans \cup {NewPlanId} ELSE plans
         /\ plan_id' = NewPlanId
         /\ CallAt("outline_call", si,
                   <<StatusRecord("plan_created", NewPlanId),
                     StatusRecord("outline_model_call", "")>>,
                   <<>>, outlinePrompt(body, MIN_STEPS, MAX_STEPS))
    /\ UNCHANGED <<rmode, body, outline, insertedPlaceholders, generated, plan_steps, fnVars, netVars, appVars>>

\* The insert of the plan record settles.
PlanInsertDone ==
    /\ rpc = "plan_insert"
    /\ \E res \in DbResults :
         /\ dbops' = Append(dbops, DbOp("plans", "insert", NewPlanId, body, res))
         /\ IF res = "ok"
            THEN /\ plans' = plans \cup {NewPlanId}
                 /\ plan_id' = NewPlanId
                 /\ CallAt("outline_call", si,
                           <<StatusRecord("plan_created", NewPlanId),
                             StatusRecord("outline_model_call", "")>>,
                           <<>>, outlinePrompt(body, MIN_STEPS, MAX_STEPS))
            ELSE /\ UNCHANGED <<plans, plan_id>>
                 /\ Refused(500, "Failed to insert plan")
    /\ UNCHANGED <<rmode, body, outline, insertedPlaceholders, generated, plan_steps, fnVars, netVars, appVars>>

\* callJSON / callJSONStream returned the outline payload: it is normalised,
\* its titles post-processed, and the placeholder insert is issued.
OutlineReturned ==
    /\ rpc = "outline_call"
    /\ cpc = "returned"
    /\ outline' = postProcessTitles(normalizeOutline(CallPayload, MIN_STEPS, MAX_STEPS))
    /\ AwaitAt("ph_insert",
               <<StatusRecord("outline_done",
                     [step_count |-> outline'.step_count, steps |-> outline'.steps])>>)
    /\ UNCHANGED <<rmode, body, plan_id, insertedPlaceholders, generated, plans,
                   plan_steps, dbops, fnVars, netVars, appVars>>

\* Mutant of CallThrew: the handler removes the plan record of a run that
\* failed.
CallThrew_cleanup ==
    /\ rpc \in {"outline_call", "step_call"}
    /\ cpc = "threw"
    /\ Caught(cerr)
    /\ dbops' = Append(dbops, DbOp("plans", "delete", plan_id, "", "ok"))
    /\ plans' = plans \ {plan_id}
    /\ UNCHANGED <<rmode, body, plan_id, outline, insertedPlaceholders, generated,
                   plan_steps, fnVars, netVars, appVars>>

\* callJSON / callJSONStream threw: the handler does not catch it per call.
CallThrew ==
    /\ rpc \in {"outline_call", "step_call"}
    /\ cpc = "threw"
    /\ Caught(cerr)
    /\ UNCHANGED <<dataVars, fnVars, netVars, appVars>>

\* Mutant of PlaceholderInsertDone: a failed insert ends the run.
PlaceholderInsertDone_abort ==
    /\ rpc = "ph_insert"
    /\ \E res \in DbResults :
         /\ dbops' = Append(dbops, DbOp("plan_steps", "insert", plan_id,
                                        placeholders(outline, plan_id), res))
         /\ plan_steps' = IF res = "ok" THEN plan_steps \o placeholders(outline, plan_id)
                          ELSE plan_steps
         /\ insertedPlaceholders' = (res = "ok")
         /\ IF res = "ok" THEN StepCall(0, <<>>)
            ELSE Refused(500, "Failed to insert placeholders")
    /\ generated' = <<>>
    /\ UNCHANGED <<rmode, body, plan_id, outline, plans, fnVars, netVars, appVars>>

\* The insert of the placeholder rows settles; the loop starts.
PlaceholderInsertDone ==
    /\ rpc = "ph_insert"
    /\ \E res \in DbResults :
         /\ dbops' = Append(dbops, DbOp("plan_steps", "insert", plan_id,
                                        placeholders(outline, plan_id), res))
         /\ plan_steps' = IF res = "ok" THEN plan_steps \o placeholders(outline, plan_id)
                          ELSE plan_steps
         /\ insertedPlaceholders' = (res = "ok")
    /\ generated' = <<>>
    /\ StepCall(0, <<>>)
    /\ UNCHANGED <<rmode, body, plan_id, outline, plans, fnVars, netVars, appVars>>

\* Mutant of StepNormalized: the update is not awaited before the loop
\* goes on.
StepNormalized_unawaited(stepGen) ==
    IF ~stepGen.ok
    THEN /\ generated' = generated
         /\ Caught(stepGen.err)
    ELSE /\ generated' = Append(generated, GeneratedRow(plan_id, stepGen.v, si))
         /\ AfterStep(insertedPlaceholders,
                      Append(generated, GeneratedRow(plan_id, stepGen.v, si)))

\* The handler with the result of normalizeStepGen: an exception goes to
\* the catch block; a row is pushed and, with incremental persistence
\* enabled, its update is issued.
StepNormalized(stepGen) ==
    IF ~stepGen.ok
    THEN /\ generated' = generated
         /\ Caught(stepGen.err)
    ELSE /\ generated' = Append(generated, GeneratedRow(plan_id, stepGen.v, si))
         /\ IF insertedPlaceholders THEN AwaitAt("step_update", <<>>)
            ELSE AfterStep(insertedPlaceholders,
                           Append(generated, GeneratedRow(plan_id, stepGen.v, si)))

\* callJSON / callJSONStream returned the payload of step si + 1.
StepReturned ==
    /\ rpc = "step_call"
    /\ cpc = "returned"
    /\ StepNormalized(normalizeStepGen(CallPayload, outline.steps[si + 1].step_key,
                                       outline.steps[si + 1].title))
    /\ UNCHANGED <<rmode, body, plan_id, outline, insertedPlaceholders, plans,
                   plan_steps, dbops, fnVars, netVars, appVars>>

\* Mutant of StepUpdateDone: after a failed update the step is generated
\* again.
StepUpdateDone_retry ==
    /\ rpc = "step_update"
    /\ \E res \in DbResults :
         /\ dbops' = Append(dbops, DbOp("plan_steps", "update", plan_id,
                                        [step_key |-> generated[si + 1].step_key,
                                         set |-> UpdateSet(generated[si + 1])], res))
         /\ plan_steps' = IF res = "ok"
                          THEN UpdatedRows(plan_steps, plan_id, generated[si + 1].step_key,
                                           UpdateSet(generated[si + 1]))
                          ELSE plan_steps
         /\ insertedPlaceholders' = insertedPlaceholders
         /\ IF res = "ok" THEN AfterStep(TRUE, generated) ELSE StepCall(si, <<>>)
    /\ UNCHANGED <<rmode, body, plan_id, outline, generated, plans, fnVars, netVars, appVars>>

\* Mutant of StepUpdateDone: a failed update leaves the flag as it was.
StepUpdateDone_forgetful ==
    /\ rpc = "step_update"
    /\ \E res \in DbResults :
         /\ dbops' = Append(dbops, DbOp("plan_steps", "update", plan_id,
                                        [step_key |-> generated[si + 1].step_key,
                                         set |-> UpdateSet(generated[si + 1])], res))
         /\ plan_steps' = IF res = "ok"
                          THEN UpdatedRows(plan_steps, plan_id, generated[si + 1].step_key,
                                           UpdateSet(generated[si + 1]))
                          ELSE plan_steps
         /\ insertedPlaceholders' = insertedPlaceholders
         /\ AfterStep(insertedPlaceholders, generated)
    /\ UNCHANGED <<rmode, body, plan_id, outline, generated, plans, fnVars, netVars, appVars>>

\* The update of the row of step si + 1 settles.
StepUpdateDone ==
    /\ rpc = "step_update"
    /\ \E res \in DbResults :
         /\ dbops' = Append(dbops, DbOp("plan_steps", "update", plan_id,
                                        [step_key |-> generated[si + 1].step_key,
                                         set |-> UpdateSet(generated[si + 1])], res))
         /\ plan_steps' = IF res = "ok"
                          THEN UpdatedRows(plan_steps, plan_id, generated[si + 1].step_key,
                                           UpdateSet(generated[si + 1]))
                          ELSE plan_steps
         /\ insertedPlaceholders' = (res = "ok")
         /\ AfterStep(res = "ok", generated)
    /\ UNCHANGED <<rmode, body, plan_id, outline, generated, plans, fnVars, netVars, appVars>>

\* Mutant of FinalizeDeleteDone: a failed delete ends the run.
FinalizeDeleteDone_checked ==
    /\ rpc = "fin_delete"
    /\ \E res \in DbResults :
         /\ dbops' = Append(dbops, DbOp("plan_steps", "delete", plan_id, "", res))
         /\ plan_steps' = IF res = "ok" THEN RowsWithout(plan_steps, plan_id) ELSE plan_steps
         /\ IF res = "ok" THEN AwaitAt("fin_insert", <<>>)
            ELSE Refused(500, "Failed to delete partial steps")
    /\ UNCHANGED <<rmode, body, plan_id, outline, insertedPlaceholders, generated,
                   plans, fnVars, netVars, appVars>>

\* Finalize: the delete of the plan's step rows settles; its outcome is not
\* looked at, and the bulk insert is issued.
FinalizeDeleteDone ==
    /\ rpc = "fin_delete"
    /\ \E res \in DbResults :
         /\ dbops' = Append(dbops, DbOp("plan_steps", "delete", plan_id, "", res))
         /\ plan_steps' = IF res = "ok" THEN RowsWithout(plan_steps, plan_id) ELSE plan_steps
    /\ AwaitAt("fin_insert", <<>>)
    /\ UNCHANGED <<rmode, body, plan_id, outline, insertedPlaceholders, generated,
                   plans, fnVars, netVars, appVars>>

\* Mutant of BulkInsertFailed: the handler does not return after the error
\* record and goes on to the done record.
BulkInsertFailed_fallthrough ==
    End(<<ErrorRecord("Failed to insert generated steps", "error"),
          Record("done", Success(rmode, plan_id, outline.step_count, generated))>>,
        HttpResponse(200, Success(rmode, plan_id, outline.step_count, generated)))

\* if (insErr): the error record or response, and return.
BulkInsertFailed ==
    End(<<ErrorRecord("Failed to insert generated steps", "error")>>,
        HttpResponse(500, [error |-> "Failed to insert generated steps"]))

\* Finalize: the bulk insert of the generated rows settles.
FinalizeInsertDone ==
    /\ rpc = "fin_insert"
    /\ \E res \in DbResults :
         /\ dbops' = Append(dbops, DbOp("plan_steps", "insert", plan_id, generated, res))
         /\ IF res = "ok"
            THEN /\ plan_steps' = plan_steps \o generated
                 /\ Succeeded(<<>>, generated)
            ELSE /\ plan_steps' = plan_steps
                 /\ BulkInsertFailed
    /\ UNCHANGED <<rmode, body, plan_id, outline, insertedPlaceholders, generated,
                   plans, fnVars, netVars, appVars>>

\* Mutant of Disconnect: the cancellation aborts the generation call in
\* flight.
Disconnect_aborting ==
    /\ Streamed
    /\ rpc \notin {"idle", "over"}
    /\ chan = "open"
    /\ chan' = "cancelled"
    /\ cpc' = IF cpc \in {"primary", "streaming", "repair"} THEN "threw" ELSE cpc
    /\ cerr' = IF cpc \in {"primary", "streaming", "repair"}
               THEN "The signal has been aborted" ELSE cerr
    /\ UNCHANGED <<cfn, ckeys, calls, pending, sfail, full, a1, r, cres, tokens>>
    /\ UNCHANGED <<rpc, si, closes, response, outcome, events, dataVars, fnVars, netVars, appVars>>

\* The caller goes away while the handler is suspended: the runtime cancels
\* the response stream.
Disconnect ==
    /\ Streamed
    /\ rpc \notin {"idle", "over"}
    /\ chan = "open"
    /\ chan' = "cancelled"
    /\ UNCHANGED <<rpc, si, closes, response, outcome, events, dataVars, callVars, fnVars, netVars, appVars>>

\* The texts the service has for the call in flight.
TextsInFlight == IF rpc = "outline_call" THEN OutlineTexts ELSE StepTexts

StreamsInFlight == IF rpc = "outline_call" THEN OutlineStreams ELSE StepStreams

InCall == rpc \in {"outline_call", "step_call"}

RunPrimaryBlocking ==
    InCall /\ PrimaryBlocking(TextsInFlight) /\ UNCHANGED <<fnVars, netVars, appVars, runVars>>

RunStreamOpen ==
    InCall /\ StreamOpen(StreamsInFlight) /\ UNCHANGED <<fnVars, netVars, appVars, runVars>>

\* Mutant of onToken: every delta is sent.
onToken_unfiltered(delta) ==
    IF rpc = "outline_call" THEN <<OutlineToken(delta)>>
    ELSE <<StepToken(outline.steps[si + 1].step_key, delta)>>

\* The handlers' onToken: the records it sends for a delta.
onToken(delta) ==
    IF delta = "" \/ Trim(delta) = "" THEN <<>>
    ELSE IF rpc = "outline_call" THEN <<OutlineToken(delta)>>
    ELSE <<StepToken(outline.steps[si + 1].step_key, delta)>>

\* A record of the streamed body is read: onToken sends its delta; when the
\* channel is cancelled send throws inside the client's try block, whose
\* catch ignores it.
RunStreamRecord ==
    /\ InCall
    /\ StreamRecord
    /\ events' = IF chan = "open" /\ Head(pending) # ""
                 THEN events \o onToken(Head(pending)) ELSE events
    /\ UNCHANGED <<rpc, si, chan, closes, response, outcome, dataVars, fnVars, netVars, appVars>>

RunStreamEnd == InCall /\ StreamEnd /\ UNCHANGED <<fnVars, netVars, appVars, runVars>>

\* Mutant of RunRepairSettles: the output of the repair call is passed to
\* onToken as one delta.
RunRepairSettles_streamed ==
    /\ InCall
    /\ RepairSettles(TextsInFlight)
    /\ events' = IF Streamed /\ chan = "open" THEN events \o onToken(r') ELSE events
    /\ UNCHANGED <<rpc, si, chan, closes, response, outcome, dataVars, fnVars, netVars, appVars>>

RunRepairSettles ==
    InCall /\ RepairSettles(TextsInFlight) /\ UNCHANGED <<fnVars, netVars, appVars, runVars>>

RunNext ==
    \/ GeneratePlanStart
    \/ PlanInsertDone
    \/ RunPrimaryBlocking
    \/ RunStreamOpen
    \/ RunStreamRecord
    \/ RunStreamEnd
    \/ RunRepairSettles
    \/ OutlineReturned
    \/ CallThrew
    \/ PlaceholderInsertDone
    \/ StepReturned
    \/ StepUpdateDone
    \/ FinalizeDeleteDone
    \/ FinalizeInsertDone
    \/ Disconnect

SpecRun == RunInit /\ [][RunNext]_vars

\* ------------------------------------------------------------------------
\* Claims about the generate-plan run (SpecRun)
\* ------------------------------------------------------------------------

\* The handler is over: it returned or its promise was rejected.
RunOver == rpc = "over"

\* The caller did not go away.
CallerConnected == chan # "cancelled"

IsTerminal(rec) == rec.event \in {"done", "error"}

TerminalPositions == {k \in 1..Len(events) : IsTerminal(events[k])}

\* The run ended in terminal success: the done record was written, or the
\* 200 response returned.
TerminalSuccess ==
    /\ RunOver
    /\ IF Streamed THEN events # <<>> /\ events[Len(events)].event = "done"
       ELSE response.status = 200

\* The step list the caller received with the terminal success.
ReturnedSteps ==
    IF Streamed THEN events[Len(events)].data.steps ELSE response.body.steps

OfRunPlan(row) == row.plan_id = plan_id

\* The step rows persisted for the run's plan_id.
PersistedRows == SelectSeq(plan_steps, OfRunPlan)

\* C6: in every streamed run the output channel is closed exactly once on
\* every exit path, an exception raised by the emit itself after the caller
\* disconnected included, and the close comes after the terminal done or
\* error record was written.
C6_ChannelClosedOnceAfterTerminal ==
    /\ closes <= 1
    /\ (Streamed /\ RunOver) =>
          /\ closes = 1
          /\ events # <<>>
          /\ IsTerminal(events[Len(events)])

\* C7: a streamed generate-plan run whose caller stays connected emits
\* exactly one terminal record, done or error and never both, and that
\* record is the last one of the stream: no record follows it.
C7_OneTerminalRecordLast ==
    (Streamed /\ CallerConnected) =>
        /\ Cardinality(TerminalPositions) <= 1
        /\ \A k \in TerminalPositions : k = Len(events)
        /\ RunOver => Cardinality(TerminalPositions) = 1

\* A connected streamed run failed in its second step, after tokens and
\* the records of the first step, and ended with the error record.
C7_Witness ==
    /\ Streamed
    /\ CallerConnected
    /\ RunOver
    /\ Len(generated) = 1
    /\ events[Len(events)].event = "error"
    /\ \E k \in 1..Len(events) : events[k].event = "token"
    /\ closes = 1

\* C8: whenever a generate-plan run ends in terminal success, the step rows
\* persisted for its plan_id are exactly the generated rows: one row for
\* each key step_1 .. step_N with the generated content, no duplicate, no
\* missing key, no leftover placeholder, whichever datastore operation
\* failed during the run.
C8_PersistedRowsAreGenerated ==
    TerminalSuccess =>
        /\ Len(PersistedRows) = outline.step_count
        /\ \A i \in 1..outline.step_count :
              /\ Cardinality({j \in 1..Len(PersistedRows) :
                                 PersistedRows[j].step_key = StepKeyTable[i]}) = 1
              /\ \A j \in 1..Len(PersistedRows) :
                    PersistedRows[j].step_key = StepKeyTable[i] =>
                        PersistedRows[j] = generated[i]

\* C10: at terminal success the returned step list has outline.step_count
\* rows, row i has the key step_<i>, order_index i and the title of the
\* outline after post-processing, whatever key and title the generator
\* echoed; and no per-step update writes step_key, title or order_index.
C10_ReturnedKeysAndTitlesAuthoritative ==
    /\ TerminalSuccess =>
          /\ Len(ReturnedSteps) = outline.step_count
          /\ \A i \in 1..Len(ReturnedSteps) :
                /\ ReturnedSteps[i].step_key = StepKeyTable[i]
                /\ ReturnedSteps[i].order_index = i
                /\ ReturnedSteps[i].title = outline.steps[i].title
    /\ \A k \in 1..Len(dbops) :
          dbops[k].op = "update" =>
              DOMAIN dbops[k].what.set \cap {"step_key", "title", "order_index"} = {}

\* A run succeeded whose last step payload echoed the key step_9 and the
\* title Hacked, after per-step updates and post-processed titles.
C10_Witness ==
    /\ TerminalSuccess
    /\ Get(CallPayload, "step_key") = JStr("step_9")
    /\ Get(CallPayload, "title") = JStr("Hacked")
    /\ ReturnedSteps[3].step_key = "step_3"
    /\ ReturnedSteps[1].title = "Define step 1 deliverable"
    /\ \E k \in 1..Len(dbops) : dbops[k].op = "update" /\ dbops[k].result = "ok"

\* C12: in every streamed run no token record is written for a delta that
\* is empty or holds white space only, whatever deltas the streaming client
\* passes to onToken.
C12_NoBlankTokenRecord ==
    \A k \in 1..Len(events) :
        events[k].event = "token" => Trim(events[k].data.delta) # ""

\* The client passed a delta of one blank to onToken in a streamed run that
\* wrote token records before it.
C12_Witness ==
    /\ Streamed
    /\ chan = "open"
    /\ tokens # <<>>
    /\ tokens[Len(tokens)] = " "
    /\ events[Len(events)].event = "token"

\* The token records written so far, in order.
TokenRecords == SelectSeq(events, LAMBDA e : e.event = "token")

\* C22: the repair call is always blocking.  Every call after the primary
\* one asks for no streamed body; while the repair call is in flight
\* onToken is not invoked and no token record is written; a token record is
\* written only for the delta of a record of the primary call's body that
\* is being read.
C22_RepairNeverStreams ==
    [][ /\ \A k \in 2..Len(calls) : ~calls[k].stream /\ calls[k].model = "repairModel"
        /\ cpc = "repair" => tokens' = tokens /\ TokenRecords' = TokenRecords
        /\ TokenRecords' # TokenRecords =>
              /\ cpc = "streaming"
              /\ pending # <<>>
              /\ Len(TokenRecords') = Len(TokenRecords) + 1
              /\ TokenRecords'[Len(TokenRecords')].data.delta = Head(pending)
              /\ tokens' = Append(tokens, Head(pending)) ]_vars

\* A streamed step call whose primary output "oops" was written as a token
\* record went through its repair call and returned the repaired payload.
C22_Witness ==
    /\ Streamed
    /\ rpc = "step_call"
    /\ cpc = "returned"
    /\ Len(calls) = 2
    /\ r # ""
    /\ TokenRecords # <<>>
    /\ TokenRecords[Len(TokenRecords)].data.delta = "oops"

\* A generation request is being issued by the step taken.
CallIssued == cpc' = "primary" /\ cpc # "primary"

\* A generation call is in flight.
CallInFlight == cpc \in {"primary", "streaming", "repair"}

\* C23: within one run at most one generation call is in flight at any
\* time.  A call is issued only when the one before it, its repair call
\* included, has returned; while a call is in flight the handler waits for
\* nothing else; the first step call is issued when the outline call has
\* returned and the placeholder insert has settled; the call for step i + 1
\* is issued when the call for step i has returned and its update has
\* settled (or no update is made, incremental persistence being disabled).
C23_OneCallAtATime ==
    [][ /\ CallInFlight => InCall
        /\ CallIssued =>
              /\ cpc \in {"idle", "returned"}
              /\ rpc' \in {"outline_call", "step_call"}
              /\ rpc' = "outline_call" => rpc = "plan_insert" /\ cpc = "idle"
              /\ rpc' = "step_call" =>
                    /\ cpc = "returned"
                    /\ outline # JUndef
                    /\ outline' = outline
                    /\ Len(generated') = si'
                    /\ si' = 0 => rpc = "ph_insert"
                    /\ si' > 0 =>
                          /\ si' = si + 1
                          /\ \/ /\ rpc = "step_update"
                                /\ dbops' # dbops
                                /\ dbops'[Len(dbops')].op = "update"
                                /\ dbops'[Len(dbops')].what.step_key = generated[si'].step_key
                             \/ rpc = "step_call" /\ ~insertedPlaceholders ]_vars

\* The call for step 2 is in its repair call, after the call for step 1
\* returned and its update settled.
C23_Witness ==
    /\ rpc = "step_call"
    /\ si = 1
    /\ cpc = "repair"
    /\ insertedPlaceholders
    /\ dbops[Len(dbops)].op = "update"
    /\ dbops[Len(dbops)].what.step_key = "step_1"

\* The positions of the datastore log at which a per-step update failed.
FailedUpdates == {k \in 1..Len(dbops) : dbops[k].op = "update" /\ dbops[k].result = "error"}

\* C24: once a per-step update has failed, incremental persistence stays
\* disabled for the rest of the run: the flag is off, no update is issued
\* or settled after the failed one (for a later step or for the same one).
C24_UpdateFailureIsPermanent ==
    \A k \in FailedUpdates :
        /\ ~insertedPlaceholders
        /\ rpc # "step_update"
        /\ \A j \in (k + 1)..Len(dbops) : dbops[j].op # "update"

\* The update of step 1 failed and the run went on to generate all three
\* steps.
C24_Witness ==
    /\ \E k \in FailedUpdates : dbops[k].what.step_key = "step_1"
    /\ Len(generated) = 3
    /\ rpc = "over"

\* The call in flight, or the last one made, is the call for step si + 1.
AtStepCall ==
    /\ calls # <<>>
    /\ outline # JUndef
    /\ si < Len(outline.steps)
    /\ calls[1].prompt = stepPrompt(body, outline.steps[si + 1].step_key,
                                    outline.steps[si + 1].title, outline.step_count)

\* The run is over because the content generation of step si + 1 failed
\* hard: neither attempt gave a payload, or details or success_criteria
\* were empty after sanitization.
StepFailedHard ==
    /\ RunOver
    /\ AtStepCall
    /\ Len(generated) = si
    /\ \/ cpc = "threw" /\ cerr = FailureMessage(a1, r)
       \/ /\ cpc = "returned"
          /\ ~normalizeStepGen(CallPayload, outline.steps[si + 1].step_key,
                               outline.steps[si + 1].title).ok

\* The insert of the placeholder rows was issued and failed.
PlaceholderInsertFailed ==
    /\ Len(dbops) >= 2
    /\ dbops[2].table = "plan_steps"
    /\ dbops[2].op = "insert"
    /\ dbops[2].result = "error"

\* The run is over because the call for step si + 1 threw, or gave a payload
\* that normalizeStepGen rejects.
StepCallFailed ==
    /\ RunOver
    /\ AtStepCall
    /\ Len(generated) = si
    /\ \/ cpc = "threw"
       \/ /\ cpc = "returned"
          /\ ~normalizeStepGen(CallPayload, outline.steps[si + 1].step_key,
                               outline.steps[si + 1].title).ok

\* C25: a failed placeholder insert never aborts the run.  After it the
\* flag is off, the run is in its step loop or in finalize, and no per-step
\* update is ever attempted; unless a step call fails or the caller goes
\* away, the run issues the call for every outline step and ends through
\* the delete and the one bulk insert of the generated rows.
C25_PlaceholderFailureDoesNotAbort ==
    PlaceholderInsertFailed =>
        /\ ~insertedPlaceholders
        /\ rpc \in {"step_call", "fin_delete", "fin_insert", "over"}
        /\ \A j \in 1..Len(dbops) : dbops[j].op # "update"
        /\ rpc = "step_call" => AtStepCall /\ Len(generated) = si /\ Len(dbops) = 2
        /\ rpc \in {"fin_delete", "fin_insert"} => Len(generated) = Len(outline.steps)
        /\ RunOver =>
              \/ StepCallFailed
              \/ ~CallerConnected
              \/ /\ Len(generated) = Len(outline.steps)
                 /\ Len(dbops) = 4
                 /\ dbops[3].op = "delete"
                 /\ dbops[4].op = "insert"
                 /\ dbops[4].what = generated
                 /\ (dbops[4].result = "ok") = TerminalSuccess

\* The placeholder insert failed and the run ended in terminal success with
\* its three steps.
C25_Witness ==
    /\ PlaceholderInsertFailed
    /\ TerminalSuccess
    /\ Len(generated) = 3
    /\ PersistedRows = generated

\* The bare titles "step N" in lower case: the word step, white space or
\* none, and a number.
BareStepTitles == {"step" \o ws \o NatToStr(n) : ws \in {"", " ", "  "}, n \in 0..99}

\* t is a bare "step N" (the titles of the set have at most 8 characters).
BareStepN(t) == Len(t) <= 8 /\ toLowerCase(t) \in BareStepTitles

\* A title the title loop must leave alone.
GoodTrimmed(u) == u # "" /\ Len(u) >= 6 /\ ~BareStepN(u)

GoodTitle(t) == GoodTrimmed(Trim(t))

\* The outline as normalizeOutline gave it, while the payload of the outline
\* call is still at hand.
OutlineAsNormalized == normalizeOutline(CallPayload, MIN_STEPS, MAX_STEPS)

\* C30: after the outline stage every step title of the outline is
\* non-empty, has at least 6 characters and is no bare 'step N', and so is
\* every title in the outline_done record, in the placeholder rows, in the
\* step prompts and in the generated rows, which carry the outline's
\* titles; a title of the normalized outline that fails one of the tests
\* was replaced by 'Define step <i> deliverable', i its 1-based position,
\* and the others were kept.
C30_TitlesPostProcessed ==
    outline # JUndef =>
        /\ \A i \in 1..Len(outline.steps) : GoodTitle(outline.steps[i].title)
        /\ rpc = "ph_insert" =>
              /\ Len(outline.steps) = Len(OutlineAsNormalized.steps)
              /\ \A i \in 1..Len(outline.steps) :
                    outline.steps[i].title =
                        IF GoodTitle(OutlineAsNormalized.steps[i].title)
                        THEN OutlineAsNormalized.steps[i].title
                        ELSE "Define step " \o NatToStr(i) \o " deliverable"
        /\ \A k \in 1..Len(events) :
              events[k].event = "status" /\ events[k].data.phase = "outline_done" =>
                  events[k].data.data.steps = outline.steps
        /\ Len(dbops) >= 2 =>
              /\ Len(dbops[2].what) = Len(outline.steps)
              /\ \A i \in 1..Len(outline.steps) :
                    dbops[2].what[i].title = outline.steps[i].title
        /\ rpc = "step_call" => AtStepCall
        /\ \A i \in 1..Len(generated) : generated[i].title = outline.steps[i].title

\* The generator gave the short title Setup for step 2 and the bare title
\* Step 1; both were replaced and the replaced titles reached the rows
\* generated.
C30_Witness ==
    /\ outline # JUndef
    /\ outline.steps[1].title = "Define step 1 deliverable"
    /\ outline.steps[2].title = "Define step 2 deliverable"
    /\ outline.steps[3].title = "Define step 3 deliverable"
    /\ Len(generated) = 3
    /\ generated[2].title = "Define step 2 deliverable"

\* C13: when the content generation of step k fails hard, the results of
\* the completed steps 1..k-1 remain persisted with their generated
\* content, with incremental persistence enabled and also after the run
\* switched to the bulk insert at its end.
C13_CompletedStepsStayPersisted ==
    StepFailedHard =>
        \A i \in 1..Len(generated) :
            \E j \in 1..Len(PersistedRows) : PersistedRows[j] = generated[i]

\* A required field of the request body is empty after trimming.
BlankField(b) ==
    \E f \in {"company_name", "company_title", "short_description"} :
        b[f] = JUndef \/ (b[f].t = "str" /\ Trim(b[f].x) = "")

\* The insert of the plan record was issued and failed.
PlanInsertFailed == dbops # <<>> /\ dbops[1].table = "plans" /\ dbops[1].result = "error"

\* The run ended in terminal error: it is over without success, and a caller
\* that is still connected received the error record or an error response.
TerminalError ==
    /\ RunOver
    /\ ~TerminalSuccess
    /\ CallerConnected =>
          IF Streamed THEN events[Len(events)].event = "error"
          ELSE response.status \in {400, 500}

\* C14: no generation call is issued and no step row is written unless the
\* input validation passed and the plan record was inserted.  A required
\* field that is empty after trimming ends the run in terminal error
\* without any datastore operation; a failed plan insert ends it in terminal
\* error without any generation call or step-row operation.
C14_NothingBeforeValidPlan ==
    /\ (rpc # "idle" /\ BlankField(body)) =>
          dbops = <<>> /\ calls = <<>> /\ TerminalError
    /\ PlanInsertFailed =>
          Len(dbops) = 1 /\ calls = <<>> /\ TerminalError
    /\ (calls # <<>> \/ \E k \in 1..Len(dbops) : dbops[k].table = "plan_steps") =>
          /\ ~BlankField(body)
          /\ plan_id \in plans
          /\ dbops[1] = DbOp("plans", "insert", plan_id, body, "ok")

\* A streamed run whose plan insert failed ended with the error record; the
\* datastore holds no plan.
C14_Witness ==
    /\ Streamed
    /\ PlanInsertFailed
    /\ RunOver
    /\ events[Len(events)] = ErrorRecord("Failed to insert plan", "")
    /\ plans = {}

\* The positions of the datastore log at which a bulk insert of step rows
\* settled: an insert after the placeholder insert.
BulkInserts == {k \in 3..Len(dbops) : dbops[k].op = "insert"}

\* Incremental persistence was disabled at some point of the run.
WasDisabled == PlaceholderInsertFailed \/ FailedUpdates # {}

\* The run went through its whole step loop and is over, with a caller
\* that received its end.
LoopCompleted ==
    /\ RunOver
    /\ outline # JUndef
    /\ Len(generated) = Len(outline.steps)
    /\ CallerConnected

\* C26: in finalize the bulk insert of the generated rows is performed if
\* and only if incremental persistence was disabled at some point of the
\* run; it is performed once, as the operation that follows the attempted
\* delete of the plan's step rows, whether that delete succeeded or failed;
\* and if it fails the run ends in terminal error and no done result is
\* produced.
C26_BulkInsertIffDisabled ==
    /\ Cardinality(BulkInserts) <= 1
    /\ \A k \in BulkInserts :
          /\ WasDisabled
          /\ k = Len(dbops)
          /\ dbops[k].what = generated
          /\ dbops[k - 1].op = "delete"
          /\ dbops[k - 1].plan_id = plan_id
          /\ RunOver
          /\ dbops[k].result = "error" =>
                /\ TerminalError
                /\ \A j \in 1..Len(events) : events[j].event # "done"
                /\ ~Streamed => response.status = 500
    /\ rpc = "fin_insert" => WasDisabled /\ dbops[Len(dbops)].op = "delete"
    /\ LoopCompleted => (BulkInserts # {}) = WasDisabled
    /\ TerminalSuccess /\ WasDisabled => \E k \in BulkInserts : dbops[k].result = "ok"

\* The delete failed, the bulk insert was performed all the same and failed
\* too, and the run ended in terminal error.
C26_Witness ==
    /\ CallerConnected
    /\ TerminalError
    /\ \E k \in BulkInserts : dbops[k - 1].result = "error" /\ dbops[k].result = "error"

\* C31: a generate-plan run never deletes its plan record, and it deletes
\* step rows only in finalize, only when incremental persistence was
\* disabled during the run, and only rows of its own plan_id: the one
\* delete it issues is on plan_steps with its plan_id, after the step loop
\* has completed, and no other step makes the persisted rows fewer; once
\* inserted the plan record exists at every later point, after a terminal
\* error too.
C31_DeletesOnlyInFinalize ==
    [][ /\ \A k \in 1..Len(dbops) :
              /\ dbops[k].table = "plans" => dbops[k].op = "insert" /\ k = 1
              /\ dbops[k].op = "delete" =>
                    /\ dbops[k].table = "plan_steps"
                    /\ dbops[k].plan_id = plan_id
                    /\ WasDisabled
                    /\ Len(generated) = Len(outline.steps)
                    /\ rpc \in {"fin_insert", "over"}
                    /\ \A j \in 1..(k - 1) : dbops[j].op # "delete"
        /\ dbops # <<>> /\ dbops[1].result = "ok" => plan_id \in plans
        /\ plans \subseteq plans'
        /\ Len(plan_steps') < Len(plan_steps) => rpc = "fin_delete" /\ ~insertedPlaceholders ]_vars

\* A run whose placeholder rows were deleted in finalize ended in terminal
\* error, and its plan record exists.
C31_Witness ==
    /\ TerminalError
    /\ CallerConnected
    /\ plan_id \in plans
    /\ \E k \in 1..Len(dbops) : dbops[k].op = "delete" /\ dbops[k].result = "ok"
    /\ PersistedRows = <<>>

\* C33: a caller that disconnects during a streamed run does not abort the
\* generation call in flight.  The step in which the caller goes away
\* leaves the call as it is; with the caller gone the call goes on reading
\* records and accumulating their deltas, writing no token record, and it
\* ends only by itself: the body is over, the request failed or its timer
\* expired, with the handler still suspended in it.
C33_DisconnectDoesNotAbort ==
    [][ /\ chan = "open" /\ chan' = "cancelled" => UNCHANGED callVars
        /\ chan = "cancelled" /\ CallInFlight =>
              /\ events' = events
              /\ rpc' = rpc
              /\ cpc = "streaming" /\ pending' # pending =>
                    /\ pending # <<>>
                    /\ pending' = Tail(pending)
                    /\ full' = full \o Head(pending)
                    /\ cpc' = "streaming"
              /\ cpc' = "threw" =>
                    cerr' \in {"The signal has been aborted", "Ollama error (500): ",
                               "Ollama error (500): overloaded",
                               "Ollama returned no body (stream unavailable).",
                               "Ollama returned no message.content",
                               FailureMessage(a1, r')}
              /\ cpc' = "returned" => cpc \in {"streaming", "repair"}
              /\ cpc = "streaming" /\ cpc' # "streaming" => pending = <<>> ]_vars

\* The caller went away before any token record of the outline call was
\* written; the call read the whole body and returned its payload.
C33_Witness ==
    /\ chan = "cancelled"
    /\ rpc = "outline_call"
    /\ cpc = "returned"
    /\ Len(calls) = 1
    /\ Len(tokens) >= 2
    /\ TokenRecords = <<>>
    /\ full = a1

\* The phase a record belongs to.
Phase(e) ==
    IF e.event = "status" THEN e.data.phase
    ELSE IF e.event = "token" THEN "token_" \o e.data.scope
    ELSE e.event

\* The step_start records written before position k.
StartsBefore(k) == Cardinality({j \in 1..(k - 1) : Phase(events[j]) = "step_start"})

\* The record before e is p, and e opens, continues or closes the round of
\* the step with key.
InRoundOf(p, key) ==
    \/ Phase(p) = "step_start" /\ p.data.data.step_key = key
    \/ Phase(p) = "token_step" /\ p.data.step_key = key

LastKey == outline.steps[Len(outline.steps)].step_key

\* Record e at position k may come directly after record p.
MayFollow(p, e, k) ==
    /\ Phase(p) \notin {"done", "error"}
    /\ CASE Phase(e) = "start" -> FALSE
         [] Phase(e) = "db_create_plan" -> Phase(p) = "start"
         [] Phase(e) = "plan_created" -> Phase(p) = "db_create_plan"
         [] Phase(e) = "outline_model_call" -> Phase(p) = "plan_created"
         [] Phase(e) = "token_outline" -> Phase(p) \in {"outline_model_call", "token_outline"}
         [] Phase(e) = "outline_done" -> Phase(p) \in {"outline_model_call", "token_outline"}
         [] Phase(e) = "step_start" ->
              /\ e.data.data.index = StartsBefore(k) + 1
              /\ e.data.data.index <= Len(outline.steps)
              /\ e.data.data.step_key = outline.steps[e.data.data.index].step_key
              /\ IF e.data.data.index = 1 THEN Phase(p) = "outline_done"
                 ELSE /\ Phase(p) = "step_done"
                      /\ p.data.data = outline.steps[e.data.data.index - 1].step_key
         [] Phase(e) = "token_step" -> InRoundOf(p, e.data.step_key)
         [] Phase(e) = "step_done" -> InRoundOf(p, e.data.data)
         [] Phase(e) = "db_insert_steps_bulk" -> Phase(p) = "step_done" /\ p.data.data = LastKey
         [] Phase(e) = "done" ->
              \/ Phase(p) = "step_done" /\ p.data.data = LastKey
              \/ Phase(p) = "db_insert_steps_bulk"
         [] Phase(e) = "error" -> TRUE
         [] OTHER -> FALSE

\* The update of the step with key was attempted.
UpdateAttempted(key) ==
    \E k \in 1..Len(dbops) : dbops[k].op = "update" /\ dbops[k].what.step_key = key

\* Incremental persistence was disabled before the round of step i ended:
\* the placeholder insert failed or the update of an earlier step did.
DisabledBy(i) ==
    \E k \in 1..Len(dbops) :
       /\ dbops[k].table = "plan_steps"
       /\ dbops[k].result = "error"
       /\ \/ dbops[k].op = "insert"
          \/ /\ dbops[k].op = "update"
             /\ \E j \in 1..(i - 1) : dbops[k].what.step_key = outline.steps[j].step_key

\* C35: the records of a streamed run are written in phase order: start,
\* db_create_plan, plan_created, outline_model_call, the outline tokens,
\* outline_done, then for each step in increasing order step_start, the
\* tokens of that step, step_done, then possibly db_insert_steps_bulk, then
\* done; a step token carries the key of the step_start that is open; and
\* step_done of a step is written only once its update was attempted or
\* skipped because incremental persistence was disabled.
C35_RecordsInPhaseOrder ==
    Streamed /\ events # <<>> =>
      /\ Phase(events[1]) = "start"
      /\ \A k \in 2..Len(events) : MayFollow(events[k - 1], events[k], k)
      /\ \A k \in 1..Len(events) :
            Phase(events[k]) = "step_done" =>
              \/ UpdateAttempted(events[k].data.data)
              \/ DisabledBy(StartsBefore(k))

\* A streamed run that went through every phase: tokens of the outline and
\* of each of three steps, the second update failed, the third was skipped,
\* and the bulk insert led to done.
C35_Witness ==
    /\ TerminalSuccess
    /\ Streamed
    /\ \E k \in 1..Len(events) : Phase(events[k]) = "db_insert_steps_bulk"
    /\ \E k \in 1..Len(events) : Phase(events[k]) = "token_outline"
    /\ \A i \in 1..3 : \E k \in 1..Len(events) :
          Phase(events[k]) = "token_step" /\ events[k].data.step_key = outline.steps[i].step_key
    /\ Cardinality(FailedUpdates) = 1
    /\ UpdateAttempted(outline.steps[2].step_key)
    /\ ~UpdateAttempted(outline.steps[3].step_key)

\* t is not empty and ends in a full stop, an exclamation or a question mark.
EndsSentence(t) == t # "" /\ Ch(t, Len(t)) \in {".", "!", "?"}

\* C15: every step in the step list of a successful generate-plan run has
\* details and success_criteria that are non-empty and end in '.', '!' or
\* '?', a priority among low, medium, high, estimated_minutes an integer in
\* 10..90 and the status not_started; and step_count lies in
\* MIN_STEPS..MAX_STEPS.
C15_ReturnedStepsWellFormed ==
    TerminalSuccess =>
        /\ outline.step_count \in MIN_STEPS..MAX_STEPS
        /\ IF Streamed THEN events[Len(events)].data.step_count = outline.step_count
           ELSE response.body.step_count = outline.step_count
        /\ \A i \in 1..Len(ReturnedSteps) :
              /\ EndsSentence(ReturnedSteps[i].details)
              /\ EndsSentence(ReturnedSteps[i].success_criteria)
              /\ ReturnedSteps[i].priority \in {"low", "medium", "high"}
              /\ ReturnedSteps[i].estimated_minutes \in 10..90
              /\ ReturnedSteps[i].status = "not_started"

\* A run succeeded with a step whose payload had the priority HIGH, minutes
\* that are no number and details without punctuation, next to a step
\* generated from the filled-in template.
C15_Witness ==
    /\ TerminalSuccess
    /\ \E i \in 1..Len(ReturnedSteps) :
          /\ ReturnedSteps[i].details = "Read the docs."
          /\ ReturnedSteps[i].success_criteria = "Quiz passed!"
          /\ ReturnedSteps[i].priority = "high"
          /\ ReturnedSteps[i].estimated_minutes = 10
    /\ \E i \in 1..Len(ReturnedSteps) :
          /\ ReturnedSteps[i].details = "Meet everyone on the team."
          /\ ReturnedSteps[i].estimated_minutes = 30

\* ------------------------------------------------------------------------
\* Generation client at the level of its transport: fetchWithTimeout,
\* ollamaChat and ollamaChatStream with their timer, the response headers,
\* the body, the chunks of a streamed body
\* ------------------------------------------------------------------------

\* One line of the streamed body: a record with message.content and done.
Rec(content, done) ==
    "{\"message\":{\"content\":\"" \o content \o "\"},\"done\":"
        \o (IF done THEN "true" ELSE "false") \o "}\n"

\* An entry of the client's log: a reader.read() issued, a chunk received
\* (its text), a record parsed (its delta, its done flag), a call of onToken.
LogEntry(op, delta, done) == [op |-> op, delta |-> delta, done |-> done]

\* The client's reading state: buf, full, the deltas given to onToken, the log.
Reading(b, f, toks, log) == [buf |-> b, full |-> f, tokens |-> toks, log |-> log]

\* obj?.message?.content ?? ""
recordDelta(obj) == Coalesce(Get(Get(obj, "message"), "content"), JStr(""))

RECURSIVE DrainLines(_, _, _, _)
RECURSIVE LineParsed(_, _, _, _, _)
RECURSIVE RecordSeen(_, _, _, _, _, _)

\* The line loop with a delta test that takes a delta of white space only
\* for an empty one.
RecordSeen_trimmed(b, f, toks, log, delta, done) ==
    IF Truthy(delta) /\ Trim(String(delta)) # ""
    THEN IF done
         THEN Reading(b, f \o String(delta), Append(toks, String(delta)),
                      log \o <<LogEntry("record", String(delta), TRUE),
                               LogEntry("onToken", String(delta), FALSE)>>)
         ELSE DrainLines(b, f \o String(delta), Append(toks, String(delta)),
                         log \o <<LogEntry("record", String(delta), FALSE),
                                  LogEntry("onToken", String(delta), FALSE)>>)
    ELSE IF done
         THEN Reading(b, f, toks, Append(log, LogEntry("record", "", TRUE)))
         ELSE DrainLines(b, f, toks, Append(log, LogEntry("record", "", FALSE)))

\* The body of the line loop for a parsed record: a truthy delta is added to
\* full and given to onToken; a truthy done leaves the line loop (break),
\* with the rest of buf kept.
RecordSeen(b, f, toks, log, delta, done) ==
    IF Truthy(delta)
    THEN IF done
         THEN Reading(b, f \o String(delta), Append(toks, String(delta)),
                      log \o <<LogEntry("record", String(delta), TRUE),
                               LogEntry("onToken", String(delta), FALSE)>>)
         ELSE DrainLines(b, f \o String(delta), Append(toks, String(delta)),
                         log \o <<LogEntry("record", String(delta), FALSE),
                                  LogEntry("onToken", String(delta), FALSE)>>)
    ELSE IF done
         THEN Reading(b, f, toks, Append(log, LogEntry("record", "", TRUE)))
         ELSE DrainLines(b, f, toks, Append(log, LogEntry("record", "", FALSE)))

\* try { JSON.parse(line) ... } catch {}: a line that does not parse is ignored.
LineParsed(b, f, toks, log, p) ==
    IF ~p.ok THEN DrainLines(b, f, toks, log)
    ELSE RecordSeen(b, f, toks, log, recordDelta(p.v), Truthy(Get(p.v, "done")))

\* while ((nl = buf.indexOf("\n")) !== -1): the complete lines of buf are
\* taken one by one; a blank line is skipped.
DrainLines(b, f, toks, log) ==
    IF IndexOf(b, "\n") = 0 THEN Reading(b, f, toks, log)
    ELSE IF Trim(SubSeq(b, 1, IndexOf(b, "\n") - 1)) = ""
    THEN DrainLines(SubSeq(b, IndexOf(b, "\n") + 1, Len(b)), f, toks, log)
    ELSE LineParsed(SubSeq(b, IndexOf(b, "\n") + 1, Len(b)), f, toks, log,
                    JSONParse(Trim(SubSeq(b, 1, IndexOf(b, "\n") - 1))))

\* Bodies the service can stream, as the chunks reader.read() delivers: the
\* usual three records; records after the one that says done, in the same
\* chunk and in a later one; a line split over two chunks; a line that is no
\* JSON; blank lines; a last line without its newline; a record without
\* message; two records in one chunk; a message that is a text and a line
\* that is a number; nothing.
Wires ==
    { <<Rec("ab", FALSE), Rec("cd", FALSE), Rec("", TRUE)>>,
      <<Rec("ab", FALSE) \o Rec("", TRUE) \o Rec("zz", FALSE)>>,
      <<Rec("ab", FALSE) \o Rec("", TRUE) \o Rec("zz", FALSE), Rec("yy", FALSE)>>,
      <<Rec("ab", FALSE) \o Rec("", TRUE), Rec("zz", FALSE)>>,
      <<Rec("ab", TRUE), Rec("cd", FALSE), Rec("ef", TRUE)>>,
      <<"{\"message\":{\"con", "tent\":\"ab\"},\"done\":true}\n">>,
      <<"oops\n", Rec("ab", FALSE)>>,
      <<"\n \n", Rec(" ", FALSE) \o "{\"done\":true}\n">>,
      <<Rec("ab", FALSE), "{\"message\":{\"content\":\"cd\"},\"done\":true}">>,
      <<Rec("a", FALSE) \o Rec("b", FALSE), Rec("c", TRUE)>>,
      <<"{\"message\":\"hello\",\"done\":false}\n", "5\n", Rec("ok", TRUE)>>,
      <<>> }

\* What the service answers to the fetch of ollamaChat: a status that is not
\* ok with a body text, or a body whose message.content is text.
ChatResponses ==
    {Response("status", "overloaded")}
        \cup {Response("content", t) : t \in {"", "{\"a\":1}", "oops"}}

\* What it answers to the fetch of ollamaChatStream: as above, or a response
\* without body, or a streamed body.
ChatStreamResponses ==
    {Response("status", "overloaded"), Response("nobody", ""), Response("body", "")}

InFlight == npc \in {"fetch", "body", "read"}

Settled == npc \in {"returned", "threw"}

\* ollamaChat / ollamaChatStream is called: the timer is armed and the fetch
\* issued.  The service is left free to answer, to stall, or to stop
\* answering at any later point.
ClientCall ==
    /\ npc = "idle"
    /\ \E fn \in {"ollamaChat", "ollamaChatStream"} :
         /\ nfn' = fn
         /\ IF fn = "ollamaChat"
            THEN nresp' \in ChatResponses /\ wire' = <<>>
            ELSE /\ nresp' \in ChatStreamResponses
                 /\ wire' \in (IF nresp'.kind = "body" THEN Wires ELSE {<<>>})
    /\ npc' = "fetch"
    /\ timer' = "armed"
    /\ buf' = ""
    /\ nlog' = <<>>
    /\ full' = ""
    /\ tokens' = <<>>
    /\ UNCHANGED <<nout, cpc, cfn, ckeys, calls, pending, sfail, a1, r, cres, cerr>>
    /\ UNCHANGED <<fnVars, runVars, appVars>>

\* The fetch resolves with the response headers.  fetchWithTimeout clears
\* the timer in its finally and ollamaChat goes on to read the body;
\* ollamaChatStream keeps its timer and reads the error text, or throws for
\* a missing body, or issues its first reader.read().
FetchSettles ==
    /\ npc = "fetch"
    /\ IF nfn = "ollamaChat"
       THEN /\ timer' = "cleared"
            /\ npc' = "body"
            /\ UNCHANGED <<nlog, nout>>
       ELSE CASE nresp.kind = "status" ->
                   /\ npc' = "body"
                   /\ UNCHANGED <<timer, nlog, nout>>
              [] nresp.kind = "nobody" ->
                   /\ npc' = "threw"
                   /\ timer' = "cleared"
                   /\ nout' = Threw("Ollama returned no body (stream unavailable).")
                   /\ nlog' = nlog
              [] OTHER ->
                   /\ npc' = "read"
                   /\ nlog' = Append(nlog, LogEntry("read", "", FALSE))
                   /\ UNCHANGED <<timer, nout>>
    /\ UNCHANGED <<nfn, nresp, wire, buf, callVars, fnVars, runVars, appVars>>

\* The body read by res.text() / res.json() arrives.
BodySettles ==
    /\ npc = "body"
    /\ nout' = ollamaChat(nresp)
    /\ npc' = IF ollamaChat(nresp).ok THEN "returned" ELSE "threw"
    /\ timer' = "cleared"
    /\ UNCHANGED <<nfn, nresp, wire, buf, nlog, callVars, fnVars, runVars, appVars>>

\* The state of the reading after the lines of buf were drained, and the
\* next reader.read() issued.
ReadAgain(rd) ==
    /\ buf' = rd.buf
    /\ full' = rd.full
    /\ tokens' = rd.tokens
    /\ nlog' = Append(rd.log, LogEntry("read", "", FALSE))

\* reader.read() resolves with a chunk: it is added to buf, the complete
\* lines are processed, and the outer loop reads again.  The log keeps the
\* chunk as it arrived.
ReadChunk ==
    /\ npc = "read"
    /\ wire # <<>>
    /\ ReadAgain(DrainLines(buf \o Head(wire), full, tokens,
                            Append(nlog, LogEntry("chunk", Head(wire), FALSE))))
    /\ wire' = Tail(wire)
    /\ UNCHANGED <<npc, nfn, timer, nresp, nout>>
    /\ UNCHANGED <<cpc, cfn, ckeys, calls, pending, sfail, a1, r, cres, cerr>>
    /\ UNCHANGED <<fnVars, runVars, appVars>>

\* Mutant of ReadEnd: at the end of the body what is left in buf is
\* processed as a last line.
ReadEnd_flushing ==
    /\ npc = "read"
    /\ npc' = "returned"
    /\ buf' = DrainLines(buf \o "\n", full, tokens, nlog).buf
    /\ full' = DrainLines(buf \o "\n", full, tokens, nlog).full
    /\ tokens' = DrainLines(buf \o "\n", full, tokens, nlog).tokens
    /\ nlog' = DrainLines(buf \o "\n", full, tokens, nlog).log
    /\ nout' = Returned(full')
    /\ timer' = "cleared"
    /\ UNCHANGED <<nfn, nresp, wire>>
    /\ UNCHANGED <<cpc, cfn, ckeys, calls, pending, sfail, a1, r, cres, cerr>>
    /\ UNCHANGED <<fnVars, runVars, appVars>>

\* reader.read() resolves with done: the service ended the body (whatever
\* it had left to send).  full is returned and the finally clears the timer.
ReadEnd ==
    /\ npc = "read"
    /\ npc' = "returned"
    /\ nout' = Returned(full)
    /\ timer' = "cleared"
    /\ UNCHANGED <<nfn, nresp, wire, buf, nlog, callVars, fnVars, runVars, appVars>>

\* The timer expires: controller.abort() makes the operation in flight
\* reject, and the call fails.
TimerExpires ==
    /\ timer = "armed"
    /\ InFlight
    /\ timer' = "fired"
    /\ npc' = "threw"
    /\ nout' = Threw("The signal has been aborted")
    /\ UNCHANGED <<nfn, nresp, wire, buf, nlog, callVars, fnVars, runVars, appVars>>

ClientNext ==
    \/ ClientCall
    \/ FetchSettles
    \/ BodySettles
    \/ ReadChunk
    \/ ReadEnd
    \/ TimerExpires

SpecClient == Idle /\ [][ClientNext]_vars

\* ------------------------------------------------------------------------
\* Claims about the generation client (SpecClient)
\* ------------------------------------------------------------------------

\* C11: every generation call, blocking or streaming, is bounded by its
\* timeout: at every point where the call waits for the service (for the
\* response headers, or for the body or a part of it) its timer is armed, so
\* that a stall ends in an abort and the call fails instead of waiting
\* forever.
C11_EveryWaitIsTimed == InFlight => timer = "armed"

\* The positions of the log at which a record that says done was parsed.
DonePositions == {k \in 1..Len(nlog) : nlog[k].op = "record" /\ nlog[k].done}

RECURSIVE TextUpTo(_, _)
\* The deltas of the records parsed at the positions 1..k of the log, joined.
TextUpTo(log, k) ==
    IF k = 0 THEN ""
    ELSE TextUpTo(log, k - 1) \o (IF log[k].op = "record" THEN log[k].delta ELSE "")

\* C20: the streaming client stops reading once a record signals
\* completion: after the first record with done = true was parsed no
\* further read is issued, and no later record, in the same chunk or in a
\* later one, has its delta passed to onToken or added to the returned text.
C20_StopsAtDoneRecord ==
    \A k \in DonePositions :
        /\ \A j \in (k + 1)..Len(nlog) :
              /\ nlog[j].op # "read"
              /\ nlog[j].op = "onToken" => j = k + 1
        /\ full = TextUpTo(nlog, k)
        /\ npc = "returned" => nout.text = TextUpTo(nlog, k)

\* The text of the chunks received so far, joined.
RECURSIVE BodyRead(_, _)
BodyRead(log, k) ==
    IF k = 0 THEN ""
    ELSE BodyRead(log, k - 1) \o (IF log[k].op = "chunk" THEN log[k].delta ELSE "")

\* The deltas a body carries: its complete lines in order, each one that is
\* a record with a non-empty delta giving that delta; a line that is no
\* JSON gives none.  With stop, the lines after the first record that says
\* done are left out.
RECURSIVE DeltasOf(_, _)
DeltasOf(text, stop) ==
    IF IndexOf(text, "\n") = 0 THEN <<>>
    ELSE LET line == Trim(SubSeq(text, 1, IndexOf(text, "\n") - 1))
             rest == SubSeq(text, IndexOf(text, "\n") + 1, Len(text))
             p == JSONParse(line)
         IN  IF line = "" \/ ~p.ok THEN DeltasOf(rest, stop)
             ELSE (IF Truthy(recordDelta(p.v)) THEN <<String(recordDelta(p.v))>> ELSE <<>>)
                     \o (IF stop /\ Truthy(Get(p.v, "done")) THEN <<>>
                         ELSE DeltasOf(rest, stop))

IsPrefix(s, t) == Len(s) <= Len(t) /\ SubSeq(t, 1, Len(s)) = s

RECURSIVE JoinTokens(_)
JoinTokens(toks) == IF toks = <<>> THEN "" ELSE Head(toks) \o JoinTokens(Tail(toks))

\* The calls of onToken in the log, in order.
OnTokenCalls == SelectSeq(nlog, LAMBDA e : e.op = "onToken")

\* C21: in ollamaChatStream, onToken is invoked exactly once for each record
\* carrying a non-empty delta, in arrival order: the deltas passed to it are
\* the deltas of the complete lines received, all of them up to the first
\* record that says done and none out of order or twice beyond it; the
\* returned text is the concatenation of the deltas passed, deltas of white
\* space included; a line that fails to parse neither fails the call nor
\* stops the lines after it from being processed.
C21_TokensAreTheDeltas ==
    /\ tokens = [k \in 1..Len(OnTokenCalls) |-> OnTokenCalls[k].delta]
    /\ IsPrefix(DeltasOf(BodyRead(nlog, Len(nlog)), TRUE), tokens)
    /\ IsPrefix(tokens, DeltasOf(BodyRead(nlog, Len(nlog)), FALSE))
    /\ full = JoinTokens(tokens)
    /\ npc = "returned" /\ nfn = "ollamaChatStream" => nout.text = JoinTokens(tokens)
    /\ npc = "threw" /\ nresp.kind = "body" => timer = "fired"

\* A line that is no JSON was received and skipped, and the record after
\* it was given to onToken; a delta of white space was given to onToken.
C21_Witness ==
    /\ npc = "returned"
    /\ \/ /\ \E k \in 1..Len(nlog) : nlog[k].op = "chunk" /\ nlog[k].delta = "oops\n"
          /\ tokens = <<"ab">>
       \/ tokens = <<" ">> /\ nout.text = " "

\* What ollamaChatStream makes of text when it arrives as one chunk.
OneChunk(text) == DrainLines(text, "", <<>>, <<>>)

\* C37: the deltas given to onToken and the text ollamaChatStream returns do
\* not depend on how the body is split into chunks: they are those of the
\* same bytes arriving as one chunk.
C37_ChunkingIndependent ==
    npc = "returned" /\ nfn = "ollamaChatStream" /\ nresp.kind = "body" =>
        /\ tokens = OneChunk(BodyRead(nlog, Len(nlog))).tokens
        /\ nout.text = OneChunk(BodyRead(nlog, Len(nlog))).full

RECURSIVE NewlinesIn(_)
\* The lines of text that are ended by a newline.
NewlinesIn(text) ==
    IF IndexOf(text, "\n") = 0 THEN 0
    ELSE 1 + NewlinesIn(SubSeq(text, IndexOf(text, "\n") + 1, Len(text)))

RECURSIVE LastLine(_)
\* What follows the last newline of text.
LastLine(text) ==
    IF IndexOf(text, "\n") = 0 THEN text
    ELSE LastLine(SubSeq(text, IndexOf(text, "\n") + 1, Len(text)))

\* The records the line loop parsed.
RecordsParsed == SelectSeq(nlog, LAMBDA e : e.op = "record")

\* C38: when the body ends, what is left in the line buffer without a
\* newline is discarded: the call returns without error the text of the
\* deltas passed to onToken; no more records were parsed than lines ended
\* by a newline were received; and the unterminated rest of the body is
\* still in the buffer, unparsed.
C38_UnterminatedLineDiscarded ==
    npc = "returned" /\ nfn = "ollamaChatStream" /\ nresp.kind = "body" =>
        /\ nout.ok
        /\ nout.text = JoinTokens(tokens)
        /\ Len(OnTokenCalls) <= Len(RecordsParsed)
        /\ Len(RecordsParsed) <= NewlinesIn(BodyRead(nlog, Len(nlog)))
        /\ LastLine(buf) = LastLine(BodyRead(nlog, Len(nlog)))

\* The body ended after a record and a last line that has no newline: a
\* record with the delta "cd" that says done.
C38_Witness ==
    /\ npc = "returned"
    /\ wire = <<>>
    /\ buf = "{\"message\":{\"content\":\"cd\"},\"done\":true}"
    /\ tokens = <<"ab">>
    /\ nout = Returned("ab")
    /\ Len(RecordsParsed) = 1

\* ------------------------------------------------------------------------
\* SpecStep: normalizeStepGen on the payloads callJSON can hand to it
\* ------------------------------------------------------------------------

\* estimated_minutes as the generator can state it: absent, null, in range,
\* out of range, fractional, numeric and non-numeric text, other types.
MinutesFields ==
    { Absent, JNull, JInt(30), JInt(5), JInt(10), JInt(45), JInt(90), JInt(91), JInt(500),
      JInt(-3), JNum(459, 1), JNum(99, 1), JStr("45"), JStr(" 20 "), JStr("abc"),
      JStr("45 min"), JStr("Infinity"), JStr(""), JBool(TRUE), JArr(<<>>), JObj(<<>>) }

\* priority as the generator can state it.
PriorityFields ==
    { Absent, JNull, JStr("low"), JStr("medium"), JStr("high"), JStr("HIGH"),
      JStr(" Low "), JStr("urgent"), JStr(""), JStr("highest"), JInt(1), JBool(TRUE) }

\* A step payload with details and success_criteria, and the members given.
StepPayload(priority, estimated_minutes) ==
    JObj(<<[k |-> "details", v |-> JStr("Read  the docs")],
           [k |-> "success_criteria", v |-> JStr("Quiz passed!")]>>
           \o (IF priority = Absent THEN <<>> ELSE <<[k |-> "priority", v |-> priority]>>)
           \o (IF estimated_minutes = Absent THEN <<>>
               ELSE <<[k |-> "estimated_minutes", v |-> estimated_minutes]>>))

StepPayloads ==
    {StepPayload(p, m) : p \in PriorityFields, m \in MinutesFields}
        \cup {JObj(<<>>), JInt(5), JStr("do it"), JArr(<<>>)}

StepInit ==
    /\ CallInit
    /\ RunIdle
    /\ NetIdle
    /\ AppIdle
    /\ arg \in StepPayloads
    /\ out = JUndef
    /\ fpc = "drawn"

NormalizeStepGenStep ==
    /\ fpc = "drawn"
    /\ out' = normalizeStepGen(arg, "step_1", "Meet the team")
    /\ fpc' = "applied"
    /\ UNCHANGED <<arg, callVars, netVars, appVars, runVars>>

StepNext == NormalizeStepGenStep

SpecStep == StepInit /\ [][StepNext]_vars

\* ------------------------------------------------------------------------
\* Claims about the step normalisation (SpecStep)
\* ------------------------------------------------------------------------

\* The generator's value v is absent, or is no finite number.
NoFiniteNumber(v) == Nullish(v) \/ ~IsFinite(Number(v))

\* n brought into 10..90
Into10To90(n) == IF n < 10 THEN 10 ELSE IF n > 90 THEN 90 ELSE n

\* The priority the step is to get for the generator's value v.
PriorityFor(v) ==
    IF v.t = "str" /\ Trim(toLowerCase(v.x)) \in {"low", "medium", "high"}
    THEN Trim(toLowerCase(v.x))
    ELSE "medium"

\* C16: step normalisation sets estimated_minutes to 30 whenever the
\* generator's estimated_minutes is absent or is no finite number (a
\* non-numeric text for one), and otherwise to the truncated value brought
\* into 10..90; priority is medium for every value that is not low, medium
\* or high, letter case and surrounding blanks aside.
C16_MinutesAndPriorityDefaults ==
    (fpc = "applied" /\ out.ok) =>
        /\ out.v.estimated_minutes =
              IF NoFiniteNumber(Get(arg, "estimated_minutes")) THEN 30
              ELSE Into10To90(Trunc(Number(Get(arg, "estimated_minutes"))))
        /\ out.v.priority = PriorityFor(Get(arg, "priority"))

\* ------------------------------------------------------------------------
\* SpecExtract: tryParseJSON on the texts a generation call can return
\* ------------------------------------------------------------------------

\* What precedes the document in a raw output: nothing, blanks, prose, a
\* json fence, a bare fence, prose with a bracket.
RawPrefixes == {"", " \n", "Sure: ", "^^^json\n", "^^^\n", "[x] "}

\* The document: objects, arrays (of numbers, of one object, of two), scalars,
\* prose, cut or broken JSON, nothing.
RawCores ==
    { "{}", "{\"a\":1}", "[1,2]", "{\"a\":[1,2]", "0", "null", "\"x\"", "oops",
      "{\"a\":}", "", "{\"a\":{\"b\":[true]}}", "[{\"a\":1}]", "[{\"a\":1},{\"b\":2}]" }

\* What follows it: nothing, prose, a closing fence, a stray closer.
RawSuffixes == {"", " done", "\n^^^", "}", " ]"}

RawTexts == {p \o c \o s : p \in RawPrefixes, c \in RawCores, s \in RawSuffixes}

ExtractInit ==
    /\ CallInit
    /\ RunIdle
    /\ NetIdle
    /\ AppIdle
    /\ arg \in RawTexts
    /\ out = JUndef
    /\ fpc = "drawn"

TryParseJSONStep ==
    /\ fpc = "drawn"
    /\ out' = tryParseJSON(arg)
    /\ fpc' = "applied"
    /\ UNCHANGED <<arg, callVars, netVars, appVars, runVars>>

ExtractNext == TryParseJSONStep

SpecExtract == ExtractInit /\ [][ExtractNext]_vars

\* ------------------------------------------------------------------------
\* Claims about the extractor (SpecExtract)
\* ------------------------------------------------------------------------

RECURSIVE IsJsonValue(_)
\* v is a value of the JSON data model: null, a boolean, a finite number, a
\* string, an array or an object of such values.
IsJsonValue(v) ==
    /\ "t" \in DOMAIN v
    /\ CASE v.t \in {"null", "bool", "num", "str"} -> TRUE
         [] v.t = "arr" -> \A i \in 1..Len(v.xs) : IsJsonValue(v.xs[i])
         [] v.t = "obj" -> \A i \in 1..Len(v.ms) : IsJsonValue(v.ms[i].v)
         [] OTHER -> FALSE

\* v is what JSON.parse gives for some part of the text t.
ParsesFrom(v, t) ==
    \E i \in 1..Len(t) : \E j \in i..Len(t) :
        JSONParse(SubSeq(t, i, j)) = [ok |-> TRUE, v |-> v]

\* C17: tryParseJSON is total on strings: for every input text (empty,
\* blank, prose, fenced JSON, truncated JSON, JSON wrapped in prose) it
\* returns none or a JSON value parsed from the text without its fences,
\* and never throws.
C17_ExtractIsTotal ==
    fpc = "applied" =>
        /\ IsJsonValue(out)
        /\ out # JNull => ParsesFrom(out, stripFences(arg))

\* An object wrapped in prose was extracted.
C17_Witness ==
    /\ fpc = "applied"
    /\ arg = "Sure: {\"a\":1} done"
    /\ out = JObj(<<[k |-> "a", v |-> JInt(1)]>>)

\* The text starts with an opening brace or bracket and does not end with
\* the closer that matches it.
LacksMatchingCloser(t) ==
    \/ StartsWith(t, "{") /\ ~EndsWith(t, "}")
    \/ StartsWith(t, "[") /\ ~EndsWith(t, "]")

\* C27: for a text that, after fence stripping and trimming, starts with
\* '{' but does not end with '}', or starts with '[' but does not end with
\* ']', tryParseJSON returns none: no value parsed from a fragment of the
\* text is returned.
C27_UnmatchedCloserGivesNone ==
    fpc = "applied" /\ LacksMatchingCloser(stripFences(arg)) => out = JNull

\* c is one valid JSON object or array.
IsDocument(c) == (StartsWith(c, "{") \/ StartsWith(c, "[")) /\ JSONParse(c).ok

\* t holds no brace and no bracket.
Braceless(t) == \A i \in 1..Len(t) : Ch(t, i) \notin {"{", "}", "[", "]"}

\* C28: for a text that consists of one valid JSON object or array
\* surrounded by prose without braces and brackets, and that does not begin
\* with '{' or '[', tryParseJSON returns exactly the value of the embedded
\* object or array.
C28_EmbeddedDocumentIsReturned ==
    fpc = "applied" =>
        \A p \in RawPrefixes, c \in RawCores, s \in RawSuffixes :
            ( /\ arg = p \o c \o s
              /\ IsDocument(c)
              /\ Braceless(p)
              /\ Braceless(s)
              /\ ~StartsWith(stripFences(arg), "{")
              /\ ~StartsWith(stripFences(arg), "[") )
            => out = JSONParse(c).v

\* ------------------------------------------------------------------------
\* SpecClean: cleanText on generated texts, and on its own output
\* ------------------------------------------------------------------------

\* Copies of the word "abcd " in the long texts: they are longer than every
\* maxLen of MaxLens.
WordCopies == 30

\* Copies of it in the text of exactly 120 characters.
ExactCopies == 24

\* maxLen: the two values normalizeStepGen passes, and small ones.
MaxLens == {0, 5, 25, 110, 120}

\* Texts to clean: empty, blank, short with and without closing punctuation,
\* with curly marks, with the fragments the targeted fixes remove, with
\* runs of blanks; long texts with a space at every fifth index (at indices
\* 4, 9, ... and at 5, 10, ...), without any space, with one early space
\* only, with punctuation at the cut, and of exactly 120 characters.
CleanTexts ==
    { "", "  \n ", "Read  the docs", "Quiz passed!", "Really?", "@Hi# $there% ",
      "It's fine'ty now", "users' end-user", "a\n\tb  c .",
      Repeat("abcd ", WordCopies),
      "x" \o Repeat("abcd ", WordCopies),
      Repeat("xy", 2 * WordCopies + 5),
      "0123456789 " \o Repeat("xy", 2 * WordCopies + 5),
      "x" \o Repeat("abc. ", WordCopies),
      "x" \o Repeat("abcd ", ExactCopies),
      Repeat("ab cd! ", WordCopies) }

\* The parameters of one call of cleanText.
CleanArgs(s, maxLen) == [s |-> s, maxLen |-> maxLen]

CleanInit ==
    /\ CallInit
    /\ RunIdle
    /\ NetIdle
    /\ AppIdle
    /\ arg \in {CleanArgs(JStr(s), m) : s \in CleanTexts, m \in MaxLens}
    /\ out = JUndef
    /\ fpc = "drawn"

CleanTextStep ==
    /\ fpc = "drawn"
    /\ out' = cleanText(arg.s, arg.maxLen)
    /\ fpc' = "applied"
    /\ UNCHANGED <<arg, callVars, netVars, appVars, runVars>>

\* cleanText is applied to the text it returned, with the same maxLen.
CleanAgainStep ==
    /\ fpc = "applied"
    /\ arg' = CleanArgs(JStr(out), arg.maxLen)
    /\ out' = cleanText(JStr(out), arg.maxLen)
    /\ fpc' = "finished"
    /\ UNCHANGED <<callVars, netVars, appVars, runVars>>

CleanNext ==
    \/ CleanTextStep
    \/ CleanAgainStep

SpecClean == CleanInit /\ [][CleanNext]_vars

\* ------------------------------------------------------------------------
\* Claims about the sanitizer (SpecClean)
\* ------------------------------------------------------------------------

\* C18: for every input text and every maxLen the output of cleanText has
\* at most maxLen + 1 characters, and when it is not empty its last
\* character is '.', '!' or '?'.
C18_CleanTextBounded ==
    fpc \in {"applied", "finished"} =>
        /\ Len(out) <= arg.maxLen + 1
        /\ out # "" => Ch(out, Len(out)) \in {".", "!", "?"}

\* A text longer than maxLen was cut at a space beyond index 20 and a full
\* stop added, which gave maxLen + 1 characters.
C18_Witness ==
    /\ fpc = "applied"
    /\ arg.maxLen = 120
    /\ Len(arg.s.x) > 150
    /\ Len(out) = 121
    /\ out = SubSeq(arg.s.x, 1, 120) \o "."

\* C19: cleanText is idempotent on its own outputs: for every text
\* t = cleanText(s, maxLen), the outputs of maxLen + 1 characters made by a
\* cut and an added full stop included, cleanText(t, maxLen) = t.
C19_CleanTextIdempotent == fpc = "finished" => out = arg.s.x

\* ------------------------------------------------------------------------
\* SpecPair: a generate-plan run while another run, of another plan, has
\* its datastore operations in flight
\* ------------------------------------------------------------------------

\* The plan record of the other run: it was inserted before this run's.
OtherPlanId == 1

\* Rows of the other run: its placeholders and its generated rows carry the
\* same step keys as every plan's rows do.
OtherPlaceholders ==
    [idx \in 1..3 |-> StepRow(OtherPlanId, stepKeyAt(idx), idx, "Other title", "", "", "medium", 30)]

OtherGenerated ==
    [idx \in 1..3 |->
        StepRow(OtherPlanId, stepKeyAt(idx), idx, "Other title", "Other details.",
                "Other criteria.", "high", 45)]

OtherUpdate(idx, res) ==
    DbOp("plan_steps", "update", OtherPlanId,
         [step_key |-> OtherGenerated[idx].step_key, set |-> UpdateSet(OtherGenerated[idx])], res)

\* The datastore operations the other run still has to issue, by the course
\* it takes: all updates succeed; the placeholder insert fails; an update
\* fails and the delete succeeds; an update fails and the delete fails.
OtherCourses ==
    { <<DbOp("plan_steps", "insert", OtherPlanId, OtherPlaceholders, "ok"),
        OtherUpdate(1, "ok"), OtherUpdate(2, "ok"), OtherUpdate(3, "ok")>>,
      <<DbOp("plan_steps", "insert", OtherPlanId, OtherPlaceholders, "error"),
        DbOp("plan_steps", "delete", OtherPlanId, "", "ok"),
        DbOp("plan_steps", "insert", OtherPlanId, OtherGenerated, "ok")>>,
      <<DbOp("plan_steps", "insert", OtherPlanId, OtherPlaceholders, "ok"),
        OtherUpdate(1, "ok"), OtherUpdate(2, "error"),
        DbOp("plan_steps", "delete", OtherPlanId, "", "ok"),
        DbOp("plan_steps", "insert", OtherPlanId, OtherGenerated, "ok")>>,
      <<DbOp("plan_steps", "insert", OtherPlanId, OtherPlaceholders, "ok"),
        OtherUpdate(1, "error"),
        DbOp("plan_steps", "delete", OtherPlanId, "", "error"),
        DbOp("plan_steps", "insert", OtherPlanId, OtherGenerated, "error")>> }

\* The step rows after the datastore performed op on rows.
Applied(rows, op) ==
    IF op.table # "plan_steps" \/ op.result # "ok" THEN rows
    ELSE CASE op.op = "insert" -> rows \o op.what
           [] op.op = "update" -> UpdatedRows(rows, op.plan_id, op.what.step_key, op.what.set)
           [] OTHER -> RowsWithout(rows, op.plan_id)

\* The other run is under way with one of its courses ahead; arg holds the
\* operations it has left and out the rows it has when taken alone.
PairInit ==
    /\ CallInit
    /\ NetIdle
    /\ AppIdle
    /\ rpc = "idle"
    /\ rmode = "generate_plan"
    /\ body = JUndef
    /\ plan_id = 0
    /\ outline = JUndef
    /\ insertedPlaceholders = FALSE
    /\ generated = <<>>
    /\ si = 0
    /\ plans = {OtherPlanId}
    /\ plan_steps = <<>>
    /\ dbops = <<>>
    /\ events = <<>>
    /\ chan = "none"
    /\ closes = 0
    /\ response = JUndef
    /\ outcome = "running"
    /\ arg \in OtherCourses
    /\ out = <<>>
    /\ fpc = "other"

\* The next datastore operation of the other run settles.
OtherRunOp ==
    /\ fpc = "other"
    /\ arg # <<>>
    /\ plan_steps' = Applied(plan_steps, Head(arg))
    /\ out' = Applied(out, Head(arg))
    /\ arg' = Tail(arg)
    /\ UNCHANGED <<fpc, callVars, netVars, appVars>>
    /\ UNCHANGED <<rpc, rmode, body, plan_id, outline, insertedPlaceholders, generated, si,
                   plans, dbops, events, chan, closes, response, outcome>>

\* The service while the two runs are observed: for each call the text the
\* prompt asks for, or prose.
PairTexts == IF rpc = "outline_call" THEN {OutlineThree, "oops"} ELSE {StepPlain, "oops"}

PairStreams ==
    IF rpc = "outline_call" THEN {<<OutlineThree>>, <<"oops">>} ELSE {<<StepPlain>>, <<"oops">>}

PairPrimaryBlocking ==
    InCall /\ PrimaryBlocking(PairTexts) /\ UNCHANGED <<fnVars, netVars, appVars, runVars>>

PairStreamOpen ==
    InCall /\ StreamOpen(PairStreams) /\ UNCHANGED <<fnVars, netVars, appVars, runVars>>

PairRepairSettles ==
    InCall /\ RepairSettles(PairTexts) /\ UNCHANGED <<fnVars, netVars, appVars, runVars>>

PairNext ==
    \/ GeneratePlanStart
    \/ PlanInsertDone
    \/ OutlineReturned
    \/ CallThrew
    \/ PlaceholderInsertDone
    \/ StepReturned
    \/ StepUpdateDone
    \/ FinalizeDeleteDone
    \/ FinalizeInsertDone
    \/ PairPrimaryBlocking
    \/ PairStreamOpen
    \/ RunStreamRecord
    \/ RunStreamEnd
    \/ PairRepairSettles
    \/ OtherRunOp

SpecPair == PairInit /\ [][PairNext]_vars

\* ------------------------------------------------------------------------
\* Claims about concurrent runs (SpecPair)
\* ------------------------------------------------------------------------

RECURSIVE Replayed(_, _)
\* The step rows a run has when its logged operations are performed alone,
\* on a datastore that holds rows.
Replayed(ops, rows) ==
    IF ops = <<>> THEN rows ELSE Replayed(Tail(ops), Applied(rows, Head(ops)))

OfOtherRun(row) == row.plan_id = OtherPlanId

\* C32: two generate-plan runs whose datastore operations interleave do not
\* interfere: at every point the rows persisted for each plan are the rows
\* its own operations give when performed alone.
C32_RunsDoNotInterfere ==
    /\ PersistedRows = Replayed(dbops, <<>>)
    /\ SelectSeq(plan_steps, OfOtherRun) = out

\* Both runs went through delete and bulk insert, this run's bulk insert
\* settling before the other run's, and each plan holds its three generated
\* rows.
C32_Witness ==
    /\ TerminalSuccess
    /\ arg = <<>>
    /\ \E k \in 1..Len(dbops) : dbops[k].op = "delete" /\ dbops[k].result = "ok"
    /\ out = OtherGenerated
    /\ PersistedRows = generated
    /\ Len(plan_steps) = 6
    /\ plan_steps[1].plan_id = plan_id
    /\ plan_steps[4].plan_id = OtherPlanId

\* ------------------------------------------------------------------------
\* SpecTwin: one request served by handleGeneratePlan, then by
\* handleGeneratePlanStream, against the same service and datastore
\* ------------------------------------------------------------------------

\* The datastore's outcomes for a run: of the plan insert, the placeholder
\* insert, the update that fails (0: none), the delete, the bulk insert.
DbCourse(plan, ph, upd, del, ins) ==
    [plan |-> plan, ph |-> ph, upd |-> upd, del |-> del, ins |-> ins]

DbCourses ==
    { DbCourse("ok", "ok", 0, "ok", "ok"), DbCourse("error", "ok", 0, "ok", "ok"),
      DbCourse("ok", "error", 0, "ok", "ok"), DbCourse("ok", "ok", 2, "ok", "ok"),
      DbCourse("ok", "ok", 2, "error", "ok"), DbCourse("ok", "ok", 3, "ok", "error") }

\* An outline of four steps.
OutlineFour ==
    "{\"step_count\":4,\"steps\":[{\"step_key\":\"step_1\",\"title\":\"Meet the team\"},"
      \o "{\"step_key\":\"step_2\",\"title\":\"Set up laptop\"},"
      \o "{\"step_key\":\"step_3\",\"title\":\"Read the handbook\"},"
      \o "{\"step_key\":\"step_4\",\"title\":\"Ship a change\"}]}"

\* What the service and the datastore do for a request: the text for the
\* outline call and for its repair call, for the call of each step and for
\* a step's repair call, and the datastore's course.
Scripts ==
    [ body : {Body(JStr(" Acme "), JStr("Engineer"), JStr("Builds rockets"))},
      op : {OutlineThree, OutlineFour, "oops", ""},
      orr : {OutlineThree, "oops"},
      sp : [1..4 -> {StepPlain, ""}],
      sr : {StepPlain, "oops"},
      db : DbCourses ]

\* The text the service has for the primary call in flight, and for its
\* repair call.
PrimaryText == IF rpc = "outline_call" THEN arg.op ELSE arg.sp[si + 1]

RepairText == IF rpc = "outline_call" THEN arg.orr ELSE arg.sr

\* The records of a streamed body that carries text.
RecordsOf(text) == IF text = "" THEN <<"">> ELSE <<text>>

\* The outcome the datastore just logged.
LastResult == dbops'[Len(dbops')].result

\* What a caller and the datastore can tell of a run that is over: the
\* upstream calls by the model they went to, the datastore operations, the
\* rows, and the terminal success with its step list or the error.
RunSummary ==
    [ calls |-> [k \in 1..Len(out.calls) |-> out.calls[k].model],
      dbops |-> dbops,
      rows |-> plan_steps,
      success |-> TerminalSuccess,
      steps |-> IF TerminalSuccess THEN ReturnedSteps ELSE <<>>,
      error |-> IF TerminalSuccess THEN ""
                ELSE IF Streamed THEN events[Len(events)].data.error
                ELSE response.body.error ]

TwinInit ==
    /\ CallInit
    /\ RunIdle
    /\ NetIdle
    /\ AppIdle
    /\ arg \in Scripts
    /\ out = [calls |-> <<>>, first |-> <<>>]
    /\ fpc = "buffered"

TwinStart ==
    /\ GeneratePlanStart
    /\ rmode' = IF fpc = "buffered" THEN "generate_plan" ELSE "generate_plan_stream"
    /\ body' = arg.body

TwinPlanInsertDone == PlanInsertDone /\ LastResult = arg.db.plan

TwinPlaceholderInsertDone == PlaceholderInsertDone /\ LastResult = arg.db.ph

TwinStepUpdateDone ==
    StepUpdateDone /\ LastResult = (IF si + 1 = arg.db.upd THEN "error" ELSE "ok")

TwinFinalizeDeleteDone == FinalizeDeleteDone /\ LastResult = arg.db.del

TwinFinalizeInsertDone == FinalizeInsertDone /\ LastResult = arg.db.ins

\* The primary ollamaChat of callJSON settles with the scripted text.
TwinPrimaryBlocking ==
    /\ InCall
    /\ PrimaryBlocking({PrimaryText})
    /\ IF PrimaryText = "" THEN cerr' = "Ollama returned no message.content"
       ELSE a1' = PrimaryText
    /\ out' = [out EXCEPT !.calls = @ \o calls']
    /\ UNCHANGED <<arg, fpc, netVars, appVars, runVars>>

\* The fetch of ollamaChatStream settles with a body that carries the
\* scripted text.
TwinStreamOpen ==
    /\ InCall
    /\ StreamOpen({RecordsOf(PrimaryText)})
    /\ cpc' = "streaming"
    /\ ~sfail'
    /\ UNCHANGED <<fnVars, netVars, appVars, runVars>>

TwinStreamEnd ==
    /\ InCall
    /\ StreamEnd
    /\ out' = [out EXCEPT !.calls = @ \o calls']
    /\ UNCHANGED <<arg, fpc, netVars, appVars, runVars>>

TwinRepairSettles ==
    /\ InCall
    /\ RepairSettles({RepairText})
    /\ r' = RepairText
    /\ UNCHANGED <<fnVars, netVars, appVars, runVars>>

\* The buffered run is over: its summary is kept, and the same request is
\* sent to the streamed handler with the datastore as it was before.
TwinSecondRequest ==
    /\ fpc = "buffered"
    /\ rpc = "over"
    /\ fpc' = "streamed"
    /\ out' = [calls |-> <<>>, first |-> RunSummary]
    /\ rpc' = "idle"
    /\ rmode' = "generate_plan"
    /\ body' = JUndef
    /\ plan_id' = 0
    /\ outline' = JUndef
    /\ insertedPlaceholders' = FALSE
    /\ generated' = <<>>
    /\ si' = 0
    /\ plans' = {}
    /\ plan_steps' = <<>>
    /\ dbops' = <<>>
    /\ events' = <<>>
    /\ chan' = "none"
    /\ closes' = 0
    /\ response' = JUndef
    /\ outcome' = "running"
    /\ cpc' = "idle"
    /\ cfn' = "callJSON"
    /\ ckeys' = <<>>
    /\ calls' = <<>>
    /\ pending' = <<>>
    /\ sfail' = FALSE
    /\ full' = ""
    /\ a1' = ""
    /\ r' = ""
    /\ cres' = JUndef
    /\ cerr' = ""
    /\ tokens' = <<>>
    /\ UNCHANGED <<arg, netVars, appVars>>

TwinNext ==
    \/ TwinStart
    \/ TwinPlanInsertDone
    \/ OutlineReturned
    \/ CallThrew
    \/ TwinPlaceholderInsertDone
    \/ StepReturned
    \/ TwinStepUpdateDone
    \/ TwinFinalizeDeleteDone
    \/ TwinFinalizeInsertDone
    \/ TwinPrimaryBlocking
    \/ TwinStreamOpen
    \/ RunStreamRecord
    \/ TwinStreamEnd
    \/ TwinRepairSettles
    \/ TwinSecondRequest

SpecTwin == TwinInit /\ [][TwinNext]_vars

\* ------------------------------------------------------------------------
\* Claims about the two variants (SpecTwin)
\* ------------------------------------------------------------------------

\* Both runs of the request are over.
BothOver == fpc = "streamed" /\ rpc = "over"

\* C34: given the same request, the same text for each call (an empty text
\* included) and the same datastore outcomes, the buffered and the streamed
\* handler issue the same upstream calls and datastore operations and end in
\* the same outcome, with the same step list and rows.
C34_VariantsAgree == BothOver => RunSummary = out.first

\* The upstream generation calls the run has issued so far: those of the
\* requests whose primary call settled, and a primary call in flight.
IssuedCalls ==
    Len(out.calls) + (IF cpc \in {"primary", "streaming"} THEN Len(calls) ELSE 0)

\* The rounds of step generation the run has started.
StepRounds == IF rpc \in {"idle", "plan_insert", "outline_call", "ph_insert"} THEN 0
              ELSE Len(SelectSeq(out.calls, LAMBDA c : c.model = "model"))
                     + (IF cpc \in {"primary", "streaming"} THEN 1 ELSE 0) - 1

\* C36: a generate-plan run issues at most two upstream calls per
\* structured-output request and at most 2 * (1 + step_count) in all, hence
\* at most 2 * (1 + MAX_STEPS); the rounds of step generation never exceed
\* the clamped step_count.
C36_CallsBounded ==
    /\ Len(calls) <= 2
    /\ IssuedCalls <= 2 * (1 + MAX_STEPS)
    /\ IF outline = JUndef THEN IssuedCalls <= 2
       ELSE /\ outline.step_count \in MIN_STEPS..MAX_STEPS
            /\ Len(outline.steps) = outline.step_count
            /\ IssuedCalls <= 2 * (1 + outline.step_count)
            /\ StepRounds <= outline.step_count

\* A streamed run of four steps in which the output of every step call
\* needed the repair call: one call for the outline and eight for the steps.
C36_Witness ==
    /\ BothOver
    /\ TerminalSuccess
    /\ outline.step_count = 4
    /\ IssuedCalls = 9
    /\ StepRounds = 4
    /\ arg.op = OutlineFour

\* ------------------------------------------------------------------------
\* SpecApply: two apply_plan requests on a datastore that holds one plan
\* with its step rows
\* ------------------------------------------------------------------------

\* The payload of an apply_plan response (the done or error record of the
\* streamed handler carries the same members).
ApplyResult(status, error, existing, created, created_notes, created_widgets) ==
    [status |-> status, error |-> error, existing_task_ids |-> existing,
     created_task_ids |-> created, created_note_ids |-> created_notes,
     created_widget_ids |-> created_widgets]

ApplyError(status, error) == ApplyResult(status, error, <<>>, <<>>, <<>>, <<>>)

\* buildTaskInsert: the task row for a step (id is given by the datastore).
buildTaskInsert(pid, step, id) ==
    [id |-> id, plan_id |-> pid, step_key |-> step.step_key, title |-> step.title,
     status |-> "todo", details |-> step.details, success_criteria |-> step.success_criteria,
     priority |-> step.priority, estimated_minutes |-> step.estimated_minutes]

\* The rows of a table that belong to plan pid, and their ids.
OfPlan(rows, pid) == SelectSeq(rows, LAMBDA row : row.plan_id = pid)

IdsOf(rows) == [k \in 1..Len(rows) |-> rows[k].id]

\* The handler of request p ends with payload res.
ApplyEnd(p, res) ==
    /\ apc' = [apc EXCEPT ![p] = "over"]
    /\ aresp' = [aresp EXCEPT ![p] = res]

\* The handler of request p suspends at the await pc.
ApplyAwait(p, pc) ==
    /\ apc' = [apc EXCEPT ![p] = pc]
    /\ aresp' = aresp

\* Plan ids a caller can name: the plan in the datastore, and one that is
\* not there.
ApplyPlanIds == {OtherPlanId, OtherPlanId + 1}

ApplyInit ==
    /\ CallInit
    /\ FnIdle
    /\ NetIdle
    /\ AppIdle
    /\ rpc = "idle"
    /\ rmode = "generate_plan"
    /\ body = JUndef
    /\ plan_id = 0
    /\ outline = JUndef
    /\ insertedPlaceholders = FALSE
    /\ generated = <<>>
    /\ si = 0
    /\ plans = {OtherPlanId}
    /\ plan_steps = OtherGenerated
    /\ dbops = <<>>
    /\ events = <<>>
    /\ chan = "none"
    /\ closes = 0
    /\ response = JUndef
    /\ outcome = "running"

\* A request arrives; with a plan_id, the plan record is selected.
ApplyPlanStart(p) ==
    /\ apc[p] = "idle"
    /\ \E pid \in ApplyPlanIds, dry \in BOOLEAN, stream \in BOOLEAN :
         areq' = [areq EXCEPT ![p] = [plan_id |-> pid, dry_run |-> dry, stream |-> stream,
                                      steps |-> <<>>]]
    /\ ApplyAwait(p, "plan_select")
    /\ UNCHANGED <<tasks, notes, dashboard_widgets, callVars, fnVars, runVars, netVars>>

\* The select of the plan record settles; the step rows are selected.
ApplyPlanSelected(p) ==
    /\ apc[p] = "plan_select"
    /\ \E res \in DbResults :
         IF res = "error" \/ areq[p].plan_id \notin plans
         THEN ApplyEnd(p, ApplyError(404, "Plan not found"))
         ELSE ApplyAwait(p, "steps_select")
    /\ UNCHANGED <<areq, tasks, notes, dashboard_widgets, callVars, fnVars, runVars, netVars>>

\* The select of the step rows settles; the existing tasks are selected.
ApplyStepsSelected(p) ==
    /\ apc[p] = "steps_select"
    /\ \E res \in DbResults :
         IF res = "error" \/ OfPlan(plan_steps, areq[p].plan_id) = <<>>
         THEN /\ ApplyEnd(p, ApplyError(404, "No plan steps found"))
              /\ areq' = areq
         ELSE /\ ApplyAwait(p, "tasks_select")
              /\ areq' = [areq EXCEPT ![p].steps = OfPlan(plan_steps, areq[p].plan_id)]
    /\ UNCHANGED <<tasks, notes, dashboard_widgets, callVars, fnVars, runVars, netVars>>

\* The select of the existing tasks settles: with tasks for the plan their
\* ids are reported and nothing is created; a dry run reports its preview;
\* otherwise the tasks are inserted.
ApplyExistingChecked(p) ==
    /\ apc[p] = "tasks_select"
    /\ \E res \in DbResults :
         IF res = "error"
         THEN ApplyEnd(p, ApplyError(500, "Failed to check existing tasks"))
         ELSE IF OfPlan(tasks, areq[p].plan_id) # <<>>
         THEN ApplyEnd(p, ApplyResult(200, "", IdsOf(OfPlan(tasks, areq[p].plan_id)),
                                      <<>>, <<>>, <<>>))
         ELSE IF areq[p].dry_run
         THEN ApplyEnd(p, ApplyResult(200, "", <<>>, <<>>, <<>>, <<>>))
         ELSE ApplyAwait(p, "tasks_insert")
    /\ UNCHANGED <<areq, tasks, notes, dashboard_widgets, callVars, fnVars, runVars, netVars>>

\* The tasks built from the steps, with the ids the datastore gives them.
tasksToCreate(p) ==
    [idx \in 1..Len(areq[p].steps) |->
        buildTaskInsert(areq[p].plan_id, areq[p].steps[idx], Len(tasks) + idx)]

\* The insert of the tasks settles; the audit note is inserted.
ApplyTasksInserted(p) ==
    /\ apc[p] = "tasks_insert"
    /\ \E res \in DbResults :
         IF res = "error"
         THEN /\ ApplyEnd(p, ApplyError(500, "Failed to create tasks"))
              /\ tasks' = tasks
         ELSE /\ tasks' = tasks \o tasksToCreate(p)
              /\ apc' = [apc EXCEPT ![p] = "note_insert"]
              /\ aresp' = [aresp EXCEPT ![p] = ApplyResult(200, "", <<>>, IdsOf(tasksToCreate(p)),
                                                          <<>>, <<>>)]
    /\ UNCHANGED <<areq, notes, dashboard_widgets, callVars, fnVars, runVars, netVars>>

\* The insert of the note settles (best effort); the widgets are inserted.
ApplyNoteInserted(p) ==
    /\ apc[p] = "note_insert"
    /\ \E res \in DbResults :
         IF res = "ok"
         THEN /\ notes' = Append(notes, [id |-> Len(notes) + 1, plan_id |-> areq[p].plan_id])
              /\ aresp' = [aresp EXCEPT ![p].created_note_ids = <<Len(notes) + 1>>]
         ELSE UNCHANGED <<notes, aresp>>
    /\ apc' = [apc EXCEPT ![p] = "widgets_insert"]
    /\ UNCHANGED <<areq, tasks, dashboard_widgets, callVars, fnVars, runVars, netVars>>

\* The insert of the two widgets settles (best effort); the handler ends.
ApplyWidgetsInserted(p) ==
    /\ apc[p] = "widgets_insert"
    /\ \E res \in DbResults :
         IF res = "ok"
         THEN /\ dashboard_widgets' = dashboard_widgets \o
                    <<[id |-> Len(dashboard_widgets) + 1, kind |-> "tasks_due_soon"],
                      [id |-> Len(dashboard_widgets) + 2, kind |-> "plan_progress"]>>
              /\ aresp' = [aresp EXCEPT ![p].created_widget_ids =
                              <<Len(dashboard_widgets) + 1, Len(dashboard_widgets) + 2>>]
         ELSE UNCHANGED <<dashboard_widgets, aresp>>
    /\ apc' = [apc EXCEPT ![p] = "over"]
    /\ UNCHANGED <<areq, tasks, notes, callVars, fnVars, runVars, netVars>>

ApplyNext ==
    \E p \in Procs :
       \/ ApplyPlanStart(p)
       \/ ApplyPlanSelected(p)
       \/ ApplyStepsSelected(p)
       \/ ApplyExistingChecked(p)
       \/ ApplyTasksInserted(p)
       \/ ApplyNoteInserted(p)
       \/ ApplyWidgetsInserted(p)

SpecApply == ApplyInit /\ [][ApplyNext]_vars

\* ------------------------------------------------------------------------
\* Claims about apply_plan (SpecApply)
\* ------------------------------------------------------------------------

\* No plan has two tasks for one step.
OneTaskSet ==
    \A i, j \in 1..Len(tasks) :
       tasks[i].plan_id = tasks[j].plan_id /\ tasks[i].step_key = tasks[j].step_key => i = j

\* C39: apply_plan creates the tasks of a plan at most once: a request that
\* finds tasks for the plan inserts nothing and reports their ids, and no
\* plan ends up with two task sets, also when two requests for the plan
\* run with their existence check and insert interleaved.
C39_TasksCreatedOnce ==
    /\ OneTaskSet
    /\ \A p \in Procs :
          apc[p] = "over" /\ aresp[p].existing_task_ids # <<>> =>
             aresp[p].created_task_ids = <<>>

\* ------------------------------------------------------------------------
\* SpecRegen: one regenerate_step request, buffered or streamed, on a
\* datastore that holds two plans with their step rows
\* ------------------------------------------------------------------------

RegenPlanId == OtherPlanId + 1

\* The step rows in the datastore: the three of the first plan; of the
\* second plan a step_1 that was inserted twice and a step_2.
RegenRows ==
    OtherGenerated \o
    << StepRow(RegenPlanId, "step_1", 1, "Second title", "Second details.", "Second criteria.", "low", 20),
       StepRow(RegenPlanId, "step_1", 1, "Second title", "Second details.", "Second criteria.", "low", 20),
       StepRow(RegenPlanId, "step_2", 2, "Second title", "Second details.", "Second criteria.", "low", 20) >>

\* Requests: plan_id of a plan with rows, of no plan, or absent (0);
\* step_key of a row, padded, of no row, or blank.
RegenBodies ==
    [plan_id : {OtherPlanId, RegenPlanId, RegenPlanId + 1, 0},
     step_key : {"step_2", " step_1 ", "step_9", " "}]

RegenModes == {"regenerate_step", "regenerate_step_stream"}

\* Texts the service can produce for the regeneration prompt: the template
\* filled in, with a capitalised priority and minutes out of range; a reply
\* without priority and minutes; a reply whose details are blank; an array;
\* prose.
RegenPlain ==
    "{\"details\":\"Pair with a mentor\",\"success_criteria\":\"First review done\","
      \o "\"priority\":\"HIGH\",\"estimated_minutes\":200}"

RegenTexts ==
    { RegenPlain, "{\"details\":\"Shadow a release\",\"success_criteria\":\"Notes shared\"}",
      "{\"details\":\"  \",\"success_criteria\":\"ok\"}", "[1]", "oops" }

RegenStreams == { <<SubSeq(RegenPlain, 1, 30), " ", SubSeq(RegenPlain, 31, Len(RegenPlain))>>, <<"oops">> }

regenPrompt(step) ==
    "You are regenerating ONE onboarding step.\n\nReturn ONLY valid MINIFIED JSON on one line.\n\n"
      \o "JSON TEMPLATE (copy exactly, only replace values):\n"
      \o "{\"details\":\"...\",\"success_criteria\":\"...\",\"priority\":\"medium\",\"estimated_minutes\":NN}\n\n"
      \o "Rules:\n- details: one sentence, <= 90 chars.\n- success_criteria: one sentence, <= 80 chars.\n"
      \o "- priority: low | medium | high.\n- estimated_minutes: integer 10..90.\n"
      \o "- No extra keys. No markdown.\n\nORIGINAL STEP:\n"
      \o "Title: " \o step.title \o "\nDetails: " \o step.details
      \o "\nSuccess Criteria: " \o step.success_criteria \o "\nPriority: " \o step.priority
      \o "\nEstimated Minutes: " \o NatToStr(step.estimated_minutes)
      \o "\n\nPLAN CONTEXT:\nCompany: Acme\nRole: Engineer\nDescription: Builds rockets\n\n\n"
      \o "USER FEEDBACK:\n(none)\n\nCONSTRAINTS:\n(none)\n\n"
      \o "Improve clarity, usefulness, and specificity. Do NOT repeat the original wording verbatim."

\* The rows the step select matches, and the columns it returns of a row.
RegenMatching(rows) ==
    SelectSeq(rows, LAMBDA row : row.plan_id = body.plan_id /\ row.step_key = Trim(body.step_key))

SelectedStep(row) ==
    [title |-> row.title, details |-> row.details, success_criteria |-> row.success_criteria,
     priority |-> row.priority, estimated_minutes |-> row.estimated_minutes]

\* const updated = {...}: the column values computed from the payload.
updatedStep(raw, step) ==
    [details |-> cleanText(Coalesce(Get(raw, "details"), JStr("")), 120),
     success_criteria |-> cleanText(Coalesce(Get(raw, "success_criteria"), JStr("")), 110),
     priority |-> normalizePriority(Get(raw, "priority")),
     estimated_minutes |->
         clampInt(Number(Coalesce(Get(raw, "estimated_minutes"), JInt(step.estimated_minutes))),
                  10, 90)]

\* The payload of terminal success.
RegenSuccess(updated) ==
    [mode |-> "regenerate_step", plan_id |-> body.plan_id, step_key |-> Trim(body.step_key),
     updated_step |-> updated]

RegenInit ==
    /\ CallInit
    /\ FnIdle
    /\ NetIdle
    /\ AppIdle
    /\ rpc = "idle"
    /\ rmode = "generate_plan"
    /\ body = JUndef
    /\ plan_id = 0
    /\ outline = JUndef
    /\ insertedPlaceholders = FALSE
    /\ generated = <<>>
    /\ si = 0
    /\ plans = {OtherPlanId, RegenPlanId}
    /\ plan_steps = RegenRows
    /\ dbops = <<>>
    /\ events = <<>>
    /\ chan = "none"
    /\ closes = 0
    /\ response = JUndef
    /\ outcome = "running"

\* The request arrives: validation, then the select of the step row.
RegenStart ==
    /\ rpc = "idle"
    /\ \E mode \in RegenModes, b \in RegenBodies :
         /\ rmode' = mode
         /\ body' = b
         /\ IF b.plan_id = 0 \/ Trim(b.step_key) = ""
            THEN /\ rpc' = "over"
                 /\ outcome' = "returned"
                 /\ IF mode = "regenerate_step_stream"
                    THEN /\ events' = <<StatusRecord("start", ""),
                                        ErrorRecord("plan_id and step_key are required", "")>>
                         /\ chan' = "closed"
                         /\ closes' = closes + 1
                         /\ response' = response
                    ELSE /\ response' = HttpResponse(400, [error |-> "plan_id and step_key are required"])
                         /\ UNCHANGED <<events, chan, closes>>
            ELSE /\ rpc' = "regen_step_select"
                 /\ IF mode = "regenerate_step_stream"
                    THEN /\ events' = <<StatusRecord("start", ""), StatusRecord("db_fetch_step", "")>>
                         /\ chan' = "open"
                    ELSE UNCHANGED <<events, chan>>
                 /\ UNCHANGED <<closes, response, outcome>>
    /\ UNCHANGED <<si, plan_id, outline, insertedPlaceholders, generated, plans,
                   plan_steps, dbops, callVars, fnVars, netVars, appVars>>

\* The select of the step settles: .single() gives the row when exactly one
\* matches; then the plan record is selected.
RegenStepSelected ==
    /\ rpc = "regen_step_select"
    /\ \E res \in DbResults :
         IF res = "error" \/ Len(RegenMatching(plan_steps)) # 1
         THEN Refused(404, "Step not found") /\ arg' = arg
         ELSE /\ arg' = SelectedStep(RegenMatching(plan_steps)[1])
              /\ AwaitAt("regen_plan_select", <<StatusRecord("db_fetch_plan", "")>>)
    /\ UNCHANGED <<out, fpc, dataVars, netVars, appVars>>

\* The select of the plan settles; the structured-output call is issued.
RegenPlanSelected ==
    /\ rpc = "regen_plan_select"
    /\ \E res \in DbResults :
         IF res = "error" \/ body.plan_id \notin plans
         THEN Refused(404, "Plan not found")
         ELSE CallAt("regen_call", si,
                     <<StatusRecord("context_ready", Trim(body.step_key)),
                       StatusRecord("model_call_start", "")>>,
                     StepKeys, regenPrompt(arg))
    /\ UNCHANGED <<dataVars, fnVars, netVars, appVars>>

InRegenCall == rpc = "regen_call"

RegenPrimaryBlocking ==
    InRegenCall /\ PrimaryBlocking(RegenTexts) /\ UNCHANGED <<fnVars, netVars, appVars, runVars>>

RegenStreamOpen ==
    InRegenCall /\ StreamOpen(RegenStreams) /\ UNCHANGED <<fnVars, netVars, appVars, runVars>>

\* The handler's onToken: the records it sends for a delta.
regenOnToken(delta) ==
    IF delta = "" \/ Trim(delta) = "" THEN <<>>
    ELSE <<Record("token", [scope |-> "regenerate_step", step_key |-> Trim(body.step_key),
                            delta |-> delta])>>

RegenStreamRecord ==
    /\ InRegenCall
    /\ StreamRecord
    /\ events' = IF chan = "open" /\ Head(pending) # ""
                 THEN events \o regenOnToken(Head(pending)) ELSE events
    /\ UNCHANGED <<rpc, si, chan, closes, response, outcome, dataVars, fnVars, netVars, appVars>>

RegenStreamEnd ==
    InRegenCall /\ StreamEnd /\ UNCHANGED <<fnVars, netVars, appVars, runVars>>

RegenRepairSettles ==
    InRegenCall /\ RepairSettles(RegenTexts) /\ UNCHANGED <<fnVars, netVars, appVars, runVars>>

\* callJSON / callJSONStream threw: the streamed handler's catch block sends
\* the error; the buffered handler has no try, and the promise it returned
\* rejects with the exception.
RegenCallThrew ==
    /\ InRegenCall
    /\ cpc = "threw"
    /\ IF Streamed THEN Caught(cerr) ELSE Rejected
    /\ UNCHANGED <<dataVars, fnVars, netVars, appVars>>

\* Mutant of RegenValidated: empty details or success_criteria are written.
RegenValidated_unchecked(updated) ==
    /\ out' = updated
    /\ AwaitAt("regen_update", <<StatusRecord("model_call_done", ""),
                                 StatusRecord("db_update_step", "")>>)

\* The handler with the values computed: empty details or success_criteria
\* end the run; otherwise the update is issued.
RegenValidated(updated) ==
    IF updated.details = "" \/ updated.success_criteria = ""
    THEN /\ out' = out
         /\ End(<<StatusRecord("model_call_done", ""),
                  ErrorRecord("Model returned invalid step content", "")>>,
                HttpResponse(500, [error |-> "Model returned invalid step content"]))
    ELSE /\ out' = updated
         /\ AwaitAt("regen_update", <<StatusRecord("model_call_done", ""),
                                      StatusRecord("db_update_step", "")>>)

\* callJSON / callJSONStream returned the payload.
RegenReturned ==
    /\ InRegenCall
    /\ cpc = "returned"
    /\ RegenValidated(updatedStep(CallPayload, arg))
    /\ UNCHANGED <<arg, fpc, dataVars, netVars, appVars>>

\* The update of the step row settles.
RegenUpdateDone ==
    /\ rpc = "regen_update"
    /\ \E res \in DbResults :
         /\ dbops' = Append(dbops, DbOp("plan_steps", "update", body.plan_id,
                                        [step_key |-> Trim(body.step_key), set |-> out], res))
         /\ IF res = "ok"
            THEN /\ plan_steps' = UpdatedRows(plan_steps, body.plan_id, Trim(body.step_key), out)
                 /\ End(<<Record("done", RegenSuccess(out))>>, HttpResponse(200, RegenSuccess(out)))
            ELSE /\ plan_steps' = plan_steps
                 /\ Refused(500, "Failed to update step")
    /\ UNCHANGED <<rmode, body, plan_id, outline, insertedPlaceholders, generated, plans,
                   fnVars, netVars, appVars>>

RegenNext ==
    \/ RegenStart
    \/ RegenStepSelected
    \/ RegenPlanSelected
    \/ RegenPrimaryBlocking
    \/ RegenStreamOpen
    \/ RegenStreamRecord
    \/ RegenStreamEnd
    \/ RegenRepairSettles
    \/ RegenCallThrew
    \/ RegenReturned
    \/ RegenUpdateDone
    \/ Disconnect

SpecRegen == RegenInit /\ [][RegenNext]_vars

\* ------------------------------------------------------------------------
\* Claims about regenerate_step (SpecRegen)
\* ------------------------------------------------------------------------

\* The columns regenerate_step is not to write.
KeptColumns(row) ==
    [plan_id |-> row.plan_id, step_key |-> row.step_key, title |-> row.title,
     order_index |-> row.order_index, status |-> row.status]

ChangedRows == {k \in 1..Len(plan_steps) : plan_steps[k] # RegenRows[k]}

\* The run ended reporting an error.
RegenEndedInError ==
    IF Streamed THEN events[Len(events)].event = "error"
    ELSE outcome = "rejected" \/ response.status \in {400, 404, 500}

\* The step or the plan is not found, the structured-output call failed, or
\* the content is empty after sanitization.
RegenCannotWrite ==
    \/ body.plan_id \notin plans
    \/ Len(RegenMatching(RegenRows)) # 1
    \/ cpc = "threw"
    \/ /\ cpc = "returned"
       /\ \/ updatedStep(CallPayload, arg).details = ""
          \/ updatedStep(CallPayload, arg).success_criteria = ""

\* C40: regenerate_step, buffered and streamed, changes at most one step row,
\* the one named by plan_id and step_key, and only its details,
\* success_criteria, priority and estimated_minutes; when the step or the
\* plan is not found, the call fails or the content is empty after
\* sanitization, nothing is written and the run ends in an error.
C40_RegenerateWritesOneStep ==
    rpc # "idle" =>
      /\ plans = {OtherPlanId, RegenPlanId}
      /\ Len(plan_steps) = Len(RegenRows)
      /\ \A k \in 1..Len(plan_steps) : KeptColumns(plan_steps[k]) = KeptColumns(RegenRows[k])
      /\ Cardinality(ChangedRows) <= 1
      /\ \A k \in ChangedRows :
            plan_steps[k].plan_id = body.plan_id /\ plan_steps[k].step_key = Trim(body.step_key)
      /\ Len(dbops) <= 1
      /\ \A k \in 1..Len(dbops) :
            /\ dbops[k].table = "plan_steps"
            /\ dbops[k].op = "update"
            /\ DOMAIN dbops[k].what.set =
                  {"details", "success_criteria", "priority", "estimated_minutes"}
      /\ RunOver /\ RegenCannotWrite =>
            /\ dbops = <<>>
            /\ plan_steps = RegenRows
            /\ CallerConnected => RegenEndedInError

\* A streamed request for " step_1 " of the first plan rewrote that row: the
\* content of the reply cleaned, the priority normalised, the minutes
\* clamped to 90; the rows of the second plan with the same key are as
\* they were.
C40_Witness ==
    /\ RunOver
    /\ Streamed
    /\ TerminalSuccess
    /\ body.step_key = " step_1 "
    /\ ChangedRows = {1}
    /\ plan_steps[1].details = "Pair with a mentor."
    /\ plan_steps[1].priority = "high"
    /\ plan_steps[1].estimated_minutes = 90
    /\ plan_steps[1].title = "Other title"
    /\ plan_steps[4] = RegenRows[4]

====
